---- MODULE Spec2Model ----
(***************************************************************************)
(* Model of the mssql-restore repository: the polling tool (src/tool: the  *)
(* BackupMonitor loop, the single-command CLI and the BackupProcessor) and *)
(* the event-driven ingestion service (src/ingestion_service: the watchdog *)
(* BackupMonitor, the BackupFileHandler and its retry decorator).          *)
(*                                                                         *)
(* The file system, the archive tool and the SQL Server engine are the     *)
(* environment: every call into them either succeeds or fails, chosen      *)
(* nondeterministically, with the number of injected failures bounded.     *)
(***************************************************************************)
EXTENDS Integers, Sequences, FiniteSets, TLC

\* ------------------------------------------------------------------ bounds
\* Environment failures injected in one behaviour of SpecRace (in Spec any
\* call into the environment may fail, any number of times).
MaxFaults == 1
\* Poll iterations that fit into the online-poll timeout (timeout / check_interval).
MaxPolls == 3
\* Backup candidates found inside one extracted archive.
MaxCands == 2
\* Creation events waiting in the observer's queue.
MaxQueue == 1
\* The largest configured number of attempts of a retry loop in SpecRetry.
MaxN == 3
\* Size samples that fit into the stability timeout, the first one included
\* (1 + timeout / check_interval).
MaxSamples == 4
\* Files that arrive, one after the other, in a behaviour of SpecEquiv.
MaxArrivals == 2

\* ------------------------------------------------------- program constants
\* settings_dict.get("retry_attempts", 3), the connection attempts of the tool.
retry_attempts == 3
\* @retry(max_attempts=3, delay=5) on process_rar_file, process_backup_file, restore_backup.
max_attempts == 3

None == "none"

\* ------------------------------------------------------------- file names
\* A directory entry is its stem and its extension (os.path.splitext).
FileName(stem, ext) == [stem |-> stem, ext |-> ext]
DatFile == FileName("a", ".dat")
RarFile == FileName("b", ".rar")
Files == {DatFile, RarFile}
\* The files dropped in the behaviours of SpecRace.
RaceFiles == {DatFile}
\* no file
NoFile == FileName("", "")

\* no archived path: the file was not archived
NoArchive == [dir |-> None, base |-> "", timestamp |-> None, ext |-> ""]

\* An archived name that loses the extension.
ArchivedNameNoExt(f) ==
    [dir |-> "archived", base |-> f.stem, timestamp |-> "T", ext |-> ""]

\* _archive_file: archived/<file_base>_<timestamp><file_ext> beside the file
ArchivedName(f) ==
    [dir |-> "archived", base |-> f.stem, timestamp |-> "T", ext |-> f.ext]

\* settings.backup.file_patterns / BackupFileHandler.file_patterns
file_patterns == {".rar", ".dat"}

\* on_created: the markers of a file that is still being written
Markers == {".lock", ".tmp", ".part"}
\* a.tmp.dat, a.dat.part, n.txt
TmpDat == FileName("a.tmp", ".dat")
PartFile == FileName("a.dat", ".part")
TxtFile == FileName("n", ".txt")
\* The names dropped in the behaviours of SpecNames.
Names == {DatFile, TmpDat, PartFile, TxtFile}
\* The dotted parts inside the stem of a name of the model.
StemExts(stem) ==
    IF stem = "a.tmp" THEN {".tmp"} ELSE IF stem = "a.dat" THEN {".dat"} ELSE {}
\* pattern in file_path
Contains(f, pattern) == pattern = f.ext \/ pattern \in StemExts(f.stem)
\* any(pattern in file_path for pattern in [".lock", ".tmp", ".part"])
HasMarker(f) == \E pattern \in Markers : Contains(f, pattern)

\* The backup file a restore works on: the watched file itself, or the
\* i-th candidate found in the extracted archive.
Orig == 0

\* ---------------------------------------------------------------- engine
\* One row of RESTORE FILELISTONLY.
Entry(name, type) == [LogicalName |-> name, Type |-> type]
\* The manifests the engine may report for a backup image.
Manifests ==
    { << >>,
      << Entry("MyDB", "D") >>,
      << Entry("", "D") >>,
      << Entry("MyDB", "D"), Entry("MyDB_log", "L") >> }
\* restored_db_<unix_time>
GenName == "restored_db_T"
\* What sys.databases reports for the database ("absent": no row).
States == {"absent", "RESTORING", "RECOVERING", "ONLINE"}

VARIABLES
    mode,             \* "monitor" | "cli" (src/tool) | "service" (src/ingestion_service)
    dir,              \* the regular files present in the watched directory
    shared,           \* the files present in the shared backup directory
    processed_files,  \* tool BackupMonitor.processed_files
    files,            \* tool BackupMonitor.run: the listing of the current cycle still to process
    skipped,          \* tool _find_backup_files: the entries the last listing skipped as processed
    mon_pc,           \* tool BackupMonitor.run: "list" | "loop"
    archive_processed,\* settings.backup.archive_processed / options.archive_processed
    target_db_name,   \* options.database_name (None in monitor mode)
    cli,              \* the CLI process: pc, terminal event, exit code
    run,              \* per thread: the orchestrator invocation in progress (or the last one)
    observer,         \* service: the watchdog observer thread has been started
    queue,            \* service: creation events waiting for the observer thread
    scan,             \* service: _process_existing_files: "todo" | "running" | "done"
    scan_list,        \* service: the os.listdir snapshot still to visit
    restored,         \* the files of the directory a restore of which has come ONLINE
    faults,           \* environment failures that may still be injected
    counted,          \* an injected failure is taken off faults (SpecRace)
    rt                \* a call of a loop of the program on its own (SpecRetry, SpecPoll, SpecStab)

\* configuration, the state of the tool's monitor and CLI, the state of the
\* service's monitor
conf == << mode, archive_processed, target_db_name, counted >>
toolv == << processed_files, files, skipped, mon_pc, cli >>
svcv == << observer, queue, scan, scan_list >>

vars == << conf, toolv, svcv, dir, shared, run, restored, faults, rt >>

Threads == {"main", "observer"}

\* ------------------------------------------------------------ run records
IdleRun ==
    [ pc        |-> "idle",
      file      |-> NoFile,   \* the artifact (directory entry) of the run
      cur       |-> Orig,     \* the backup file being restored: Orig or a candidate index
      ncand     |-> 0,        \* candidates found by the current extraction
      tmp       |-> FALSE,    \* an extraction temporary directory of this run exists
      conn      |-> FALSE,    \* a connection of this run is open
      tpath     |-> FALSE,    \* service: restore_backup's temp_backup_path is set
      attempt   |-> 0,        \* tool: connection attempts made
      a_rar     |-> 0,        \* service: attempt number of the process_rar_file wrapper
      a_pbf     |-> 0,        \* service: attempt number of the process_backup_file wrapper
      a_rb      |-> 0,        \* service: attempt number of the restore_backup wrapper
      restored  |-> FALSE,    \* service: process_rar_file's restored_db is set
      file_info |-> << >>,    \* the manifest read
      db        |-> None,     \* db_name
      flist     |-> << >>,    \* file_list
      polls     |-> 0,        \* poll samples taken by the current _wait_for_db_online
      stable    |-> FALSE,    \* _wait_for_file_stability returned True for the file
      archived_path |-> NoArchive,  \* tool: result["archived_path"]
      cb_fail   |-> FALSE,    \* a call of the progress reporter has raised in this run
      \* --- observations of the run
      online    |-> None,     \* the database name sampled ONLINE by this restore attempt
      again     |-> FALSE,    \* a restore of this run came ONLINE for a file already restored
      issued    |-> FALSE,    \* a RESTORE DATABASE command was issued in this run
      n_man     |-> 0,        \* RESTORE FILELISTONLY queries issued in this run
      n_res     |-> 0,        \* RESTORE DATABASE commands issued in this run
      rfail     |-> FALSE,    \* the full RESTORE DATABASE command failed in this run
      fb        |-> FALSE,    \* the simplified RESTORE DATABASE was issued in this run
      nocand    |-> FALSE,    \* an extraction of this run found no .dat file
      empty     |-> FALSE,    \* a manifest query of this run returned zero rows
      failed    |-> FALSE,    \* an engine or file-system call of this run failed
      arch_fail |-> FALSE,    \* the move into archived/ failed in this run
      timed_out |-> FALSE,    \* _wait_for_db_online raised its timeout in this run
      status    |-> "none",   \* terminal outcome: "success" | "failed" | "deferred"
      reason    |-> None ]

\* An end of a restore attempt that leaves its connection open.
ScratchKeepConn(r) ==
    [r EXCEPT !.file_info = << >>, !.db = None, !.flist = << >>, !.polls = 0,
              !.online = None, !.tpath = FALSE]

\* The working values of one restore attempt are dropped when it ends.
Scratch(r) ==
    [r EXCEPT !.file_info = << >>, !.db = None, !.flist = << >>, !.polls = 0,
              !.online = None, !.conn = FALSE, !.tpath = FALSE]
\* An end of the run that leaves the extraction directory behind.
EndedKeepTmp(r) ==
    [r EXCEPT !.cur = Orig, !.ncand = 0, !.conn = FALSE, !.tpath = FALSE,
              !.polls = 0, !.attempt = 0, !.a_rar = 0, !.a_pbf = 0, !.a_rb = 0]

\* ... and the positions of the run when the run ends.
Ended(r) ==
    [r EXCEPT !.cur = Orig, !.ncand = 0, !.tmp = FALSE, !.conn = FALSE, !.tpath = FALSE,
              !.polls = 0, !.attempt = 0, !.a_rar = 0, !.a_pbf = 0, !.a_rb = 0]

\* One more invocation of a stage; the tally stops above max_attempts.
Count(n) == IF n > max_attempts THEN n ELSE n + 1

CanFail == faults > 0
Fault == faults' = IF counted THEN faults - 1 ELSE faults

SetRun(t, r) == run' = [run EXCEPT ![t] = r]

\* The names of the files found in an extracted archive, in traversal order.
CandStems == << "c1", "c2", "c3", "c4" >>
CandFile(i) == FileName(CandStems[i], ".dat")

\* os.path.basename of the backup file the run works on
BackupName(r) == IF r.cur = Orig THEN r.file ELSE CandFile(r.cur)

\* os.path.exists of the backup file the run works on: the watched file is
\* there while it is in the directory; a candidate, while the temporary
\* directory is.
Exists(r) == IF r.cur = Orig THEN r.file \in dir ELSE r.tmp

\* ========================================================== retry loops
\* A retry loop that gives up one attempt early.
RetryAgainOffByOne(attempt, n) == attempt + 1 < n

\* retry.wrapper: after a failed attempt, sleep and call again while attempt < max_attempts
RetryAgainN(attempt, n) == attempt < n
RetryAgain(attempt) == RetryAgainN(attempt, max_attempts)

\* the connection loop of _restore_backup: sleep and connect again while
\* attempt < retry_attempts
ConnectRetriesN(attempt, n) == attempt < n
ConnectRetries(attempt) == ConnectRetriesN(attempt, retry_attempts)

\* What one invocation of the wrapped operation does: it returns a value or
\* raises an error.
Values == {"v1", "v2"}
Errors == {"e1", "e2", "e3"}
NoRetry ==
    [ kind     |-> None,   \* "decorator" | "connect"
      n        |-> 0,      \* max_attempts / retry_attempts
      outcomes |-> << >>,  \* what the i-th invocation of the operation does
      pc       |-> "idle", \* "loop" | "returned" | "raised"
      attempt  |-> 0,
      calls    |-> 0,      \* invocations of the operation
      warnings |-> 0,      \* "attempt failed" warnings logged
      sleeps   |-> 0,      \* delays taken before another attempt
      reports  |-> 0,      \* progress_callback events
      result   |-> None,
      error    |-> [type |-> None, of |-> None] ]

\* retry.wrapper around an operation
Wrapper ==
    /\ rt.kind = "decorator" /\ rt.pc = "loop"
    /\ IF rt.attempt >= rt.n
       THEN \* range(1, max_attempts + 1) is empty: the wrapper falls off its end
            rt' = [rt EXCEPT !.pc = "returned"]
       ELSE LET a == rt.attempt + 1
                o == rt.outcomes[rt.calls + 1]
                q == [rt EXCEPT !.attempt = a, !.calls = rt.calls + 1]
            IN  IF o \in Values
                THEN rt' = [q EXCEPT !.pc = "returned", !.result = o]
                ELSE IF RetryAgainN(a, rt.n)
                     THEN rt' = [q EXCEPT !.warnings = rt.warnings + 1,
                                          !.sleeps = rt.sleeps + 1,
                                          !.error = [type |-> "last_exception", of |-> o]]
                     ELSE rt' = [q EXCEPT !.warnings = rt.warnings + 1,
                                          !.pc = "raised",
                                          !.error = [type |-> "last_exception", of |-> o]]
    /\ UNCHANGED << conf, toolv, svcv, dir, shared, run, restored, faults >>

\* the connection loop of _restore_backup around pymssql.connect
ConnectLoop ==
    /\ rt.kind = "connect" /\ rt.pc = "loop"
    /\ IF ~(rt.attempt < rt.n)
       THEN \* the loop is left without a cursor: cursor.execute raises
            rt' = [rt EXCEPT !.pc = "raised",
                             !.error = [type |-> "AttributeError", of |-> None]]
       ELSE LET a == rt.attempt + 1
                o == rt.outcomes[rt.calls + 1]
                q == [rt EXCEPT !.attempt = a, !.calls = rt.calls + 1,
                                !.reports = rt.reports + 1]
            IN  IF o \in Values
                THEN rt' = [q EXCEPT !.pc = "returned", !.result = o]
                ELSE IF ConnectRetriesN(a, rt.n)
                     THEN rt' = [q EXCEPT !.warnings = rt.warnings + 1,
                                          !.sleeps = rt.sleeps + 1,
                                          !.error = [type |-> "last_error", of |-> o]]
                     ELSE rt' = [q EXCEPT !.warnings = rt.warnings + 1,
                                          !.pc = "raised",
                                          !.error = [type |-> "ConnectionError", of |-> o]]
    /\ UNCHANGED << conf, toolv, svcv, dir, shared, run, restored, faults >>

\* ============================================================ src/tool
\* ------------------------------------------------- BackupProcessor

\* A derivation without the generated name.
DbNameLogicalOnly(file_info, target) ==
    IF target # None THEN target ELSE file_info[1].LogicalName

\* derive the database name: explicit target, first logical name, generated
DbName(file_info, target) ==
    IF target # None THEN target
    ELSE IF file_info[1].LogicalName # "" THEN file_info[1].LogicalName
    ELSE GenName

FileList(file_info) == [i \in 1..Len(file_info) |-> file_info[i].LogicalName]

\* An exception leaves process_backup: _restore_backup's finally closes the
\* connection, _process_rar's finally removes the temporary directory.
T_Raise(r, reason) ==
    [Ended(Scratch(r)) EXCEPT !.pc = "raised", !.reason = reason]

\* A dispatch that takes every file that is not an archive for a backup.
T_StartAnyAsDat(t) ==
    /\ mode \in {"monitor", "cli"}
    /\ run[t].pc = "pb_start"
    /\ LET r == run[t] IN
         IF r.file \notin dir
         THEN SetRun(t, T_Raise(r, "FileNotFoundError"))
         ELSE IF r.file.ext = ".rar" THEN SetRun(t, [r EXCEPT !.pc = "t_extract"])
         ELSE SetRun(t, [r EXCEPT !.pc = "t_validate"])
    /\ UNCHANGED << rt, conf, toolv, svcv, dir, shared, restored, faults >>

\* process_backup up to the dispatch on the extension
T_Start(t) ==
    /\ mode \in {"monitor", "cli"}
    /\ run[t].pc = "pb_start"
    /\ LET r == run[t] IN
         IF r.file \notin dir
         THEN SetRun(t, T_Raise(r, "FileNotFoundError"))
         ELSE IF r.file.ext = ".rar" THEN SetRun(t, [r EXCEPT !.pc = "t_extract"])
         ELSE IF r.file.ext = ".dat" THEN SetRun(t, [r EXCEPT !.pc = "t_validate"])
         ELSE SetRun(t, T_Raise(r, "UnsupportedFileType"))
    /\ UNCHANGED << rt, conf, toolv, svcv, dir, shared, restored, faults >>

\* _process_rar: extraction and the search for .dat files
T_Extract(t) ==
    /\ run[t].pc = "t_extract"
    /\ LET r == run[t] IN
         \/ /\ CanFail /\ Fault
            /\ SetRun(t, T_Raise([r EXCEPT !.failed = TRUE], "ExtractionError"))
         \/ /\ UNCHANGED faults
            /\ \E n \in 0..MaxCands :
                 IF n = 0
                 THEN SetRun(t, T_Raise([r EXCEPT !.nocand = TRUE], "NoBackupInArchive"))
                 ELSE SetRun(t, [r EXCEPT !.pc = "t_validate", !.tmp = TRUE,
                                          !.ncand = n, !.cur = 1])
    /\ UNCHANGED << rt, conf, toolv, svcv, dir, shared, restored >>

\* _process_dat: _validate_backup_file, then _copy_to_shared_dir
T_Copy(t) ==
    /\ run[t].pc = "t_validate"
    /\ LET r == run[t] IN
         IF ~Exists(r)
         THEN /\ SetRun(t, T_Raise(r, "FileNotFoundError"))
              /\ UNCHANGED << shared, faults >>
         ELSE \/ /\ CanFail /\ Fault
                 /\ SetRun(t, T_Raise([r EXCEPT !.failed = TRUE], "EmptyBackupFile"))
                 /\ UNCHANGED shared
              \/ /\ CanFail /\ Fault
                 /\ SetRun(t, T_Raise([r EXCEPT !.failed = TRUE], "CopyError"))
                 /\ UNCHANGED shared
              \/ /\ UNCHANGED faults
                 /\ shared' = shared \cup {BackupName(r)}
                 /\ SetRun(t, [r EXCEPT !.pc = "t_connect"])
    /\ UNCHANGED << rt, conf, toolv, svcv, dir, restored >>

\* _restore_backup: one pass of the connection loop
T_Connect(t) ==
    /\ run[t].pc = "t_connect"
    /\ LET r == run[t]
           a == r.attempt + 1
       IN  \/ /\ CanFail /\ Fault
              /\ IF ConnectRetries(a)
                 THEN SetRun(t, [r EXCEPT !.attempt = a, !.failed = TRUE])
                 ELSE SetRun(t, T_Raise([r EXCEPT !.attempt = a, !.failed = TRUE],
                                        "ConnectionError"))
           \/ /\ UNCHANGED faults
              /\ SetRun(t, [r EXCEPT !.attempt = a, !.conn = TRUE, !.pc = "t_manifest"])
    /\ UNCHANGED << rt, conf, toolv, svcv, dir, shared, restored >>

\* _restore_backup: RESTORE FILELISTONLY and the empty-manifest check
T_Manifest(t) ==
    /\ run[t].pc = "t_manifest"
    /\ LET r == [run[t] EXCEPT !.n_man = Count(run[t].n_man)] IN
         \/ /\ CanFail /\ Fault
            /\ SetRun(t, T_Raise([r EXCEPT !.failed = TRUE], "OperationError"))
         \/ /\ UNCHANGED faults
            /\ \E m \in Manifests :
                 IF m = << >>
                 THEN SetRun(t, T_Raise([r EXCEPT !.empty = TRUE], "NoManifestError"))
                 ELSE SetRun(t, [r EXCEPT !.pc = "t_restore", !.file_info = m])
    /\ UNCHANGED << rt, conf, toolv, svcv, dir, shared, restored >>

\* _restore_backup: the name, the file list and the RESTORE DATABASE command
T_Restore(t) ==
    /\ run[t].pc = "t_restore"
    /\ LET r == run[t]
           q == [r EXCEPT !.db = DbName(r.file_info, target_db_name),
                          !.flist = FileList(r.file_info),
                          !.issued = TRUE, !.n_res = Count(r.n_res)]
       IN  \/ /\ CanFail /\ Fault
              /\ SetRun(t, T_Raise([q EXCEPT !.failed = TRUE, !.rfail = TRUE],
                                   "OperationError"))
           \/ /\ UNCHANGED faults
              /\ SetRun(t, [q EXCEPT !.pc = "t_poll", !.polls = 0])
    /\ UNCHANGED << rt, conf, toolv, svcv, dir, shared, restored >>

\* A wait that returns on the first row it reads, whatever the state.
T_PollDoneAnyRow(state) == state # "absent"

\* _wait_for_db_online returns on this sample
T_PollDone(state) == state = "ONLINE"

\* one pass of the loop of _wait_for_db_online, or its timeout
T_Poll(t) ==
    /\ run[t].pc = "t_poll"
    /\ LET r == run[t] IN
         IF r.polls >= MaxPolls
         THEN /\ SetRun(t, T_Raise([r EXCEPT !.timed_out = TRUE], "TimeoutError"))
              /\ UNCHANGED << faults, restored >>
         ELSE \/ /\ CanFail /\ Fault
                 /\ SetRun(t, T_Raise([r EXCEPT !.failed = TRUE], "OperationError"))
                 /\ UNCHANGED restored
              \/ /\ UNCHANGED faults
                 /\ \E s \in States :
                      IF T_PollDone(s)
                      THEN /\ SetRun(t, [r EXCEPT !.polls = 0, !.attempt = 0,
                                                  !.online = IF s = "ONLINE" THEN r.db ELSE r.online,
                                                  !.again = r.again \/ (s = "ONLINE" /\ r.file \in restored),
                                                  !.conn = FALSE, !.tmp = FALSE,
                                                  !.pc = "t_archive"])
                           /\ restored' =
                                IF s = "ONLINE" THEN restored \cup {r.file} ELSE restored
                      ELSE /\ SetRun(t, [r EXCEPT !.polls = r.polls + 1])
                           /\ UNCHANGED restored
    /\ UNCHANGED << rt, conf, toolv, svcv, dir, shared >>

\* An archival whose failing move has taken the file away all the same.
T_ArchiveLosesFile(t) ==
    /\ run[t].pc = "t_archive"
    /\ LET r == run[t] IN
         IF ~archive_processed
         THEN /\ SetRun(t, [Ended(r) EXCEPT !.pc = "returned"])
              /\ UNCHANGED << dir, faults >>
         ELSE \/ /\ r.file \in dir
                 /\ UNCHANGED faults
                 /\ dir' = dir \ {r.file}
                 /\ SetRun(t, [Ended(r) EXCEPT !.pc = "returned",
                                               !.archived_path = ArchivedName(r.file)])
              \/ /\ \/ r.file \notin dir /\ UNCHANGED faults
                    \/ r.file \in dir /\ CanFail /\ Fault
                 /\ SetRun(t, T_Raise([r EXCEPT !.arch_fail = TRUE], "ArchiveError"))
                 /\ dir' = dir \ {r.file}
    /\ UNCHANGED << rt, conf, toolv, svcv, shared, restored >>

\* process_backup: the archival of the processed file and the return of the result
T_Archive(t) ==
    /\ run[t].pc = "t_archive"
    /\ LET r == run[t] IN
         IF ~archive_processed
         THEN /\ SetRun(t, [Ended(r) EXCEPT !.pc = "returned"])
              /\ UNCHANGED << dir, faults >>
         ELSE \/ /\ r.file \in dir
                 /\ UNCHANGED faults
                 /\ dir' = dir \ {r.file}
                 /\ SetRun(t, [Ended(r) EXCEPT !.pc = "returned",
                                               !.archived_path = ArchivedName(r.file)])
              \/ /\ \/ r.file \notin dir /\ UNCHANGED faults
                    \/ r.file \in dir /\ CanFail /\ Fault
                 /\ SetRun(t, T_Raise([r EXCEPT !.arch_fail = TRUE], "ArchiveError"))
                 /\ UNCHANGED dir
    /\ UNCHANGED << rt, conf, toolv, svcv, shared, restored >>

\* ------------------------------------------------- tool BackupMonitor

\* A listing that does not skip the processed names.
FindBackupFilesAll == { f \in dir : f.ext \in file_patterns }

\* _find_backup_files
FindBackupFiles ==
    { f \in dir : f \notin processed_files /\ f.ext \in file_patterns }

\* run: the listing at the top of a cycle
MonFind ==
    /\ mode = "monitor" /\ mon_pc = "list"
    /\ files' = FindBackupFiles
    /\ skipped' = { f \in dir : f \in processed_files }
    /\ mon_pc' = "loop"
    /\ UNCHANGED << rt, conf, svcv, dir, shared, processed_files, cli, run, restored, faults >>

\* process_file up to the call of process_backup
ProcessFileBegin(f) ==
    /\ mode = "monitor" /\ mon_pc = "loop"
    /\ run["main"].pc = "idle"
    /\ f \in files
    /\ files' = files \ {f}
    /\ SetRun("main", [IdleRun EXCEPT !.pc = "pb_start", !.file = f])
    /\ UNCHANGED << rt, conf, svcv, dir, shared, processed_files, skipped, mon_pc, cli, restored, faults >>

\* A process_file that records the name whether process_backup returned or raised.
ProcessFileEndAlways ==
    /\ mode = "monitor"
    /\ run["main"].pc \in {"returned", "raised"}
    /\ processed_files' = processed_files \cup {run["main"].file}
    /\ SetRun("main", IdleRun)
    /\ UNCHANGED << rt, conf, svcv, dir, shared, files, skipped, mon_pc, cli, restored, faults >>

\* A process_file that lets the exception of process_backup through: run is
\* left and the monitor stops.
ProcessFileEndReraise ==
    /\ mode = "monitor"
    /\ run["main"].pc \in {"returned", "raised"}
    /\ LET r == run["main"] IN
         IF r.pc = "returned"
         THEN /\ processed_files' = processed_files \cup {r.file}
              /\ SetRun("main", IdleRun)
              /\ UNCHANGED << files, mon_pc >>
         ELSE /\ SetRun("main", IdleRun)
              /\ files' = {}
              /\ mon_pc' = "stopped"
              /\ UNCHANGED processed_files
    /\ UNCHANGED << rt, conf, svcv, dir, shared, skipped, cli, restored, faults >>

\* process_file after process_backup returned or raised
ProcessFileEnd ==
    /\ mode = "monitor"
    /\ run["main"].pc \in {"returned", "raised"}
    /\ LET r == run["main"] IN
         IF r.pc = "returned"
         THEN /\ processed_files' = processed_files \cup {r.file}
              /\ SetRun("main", IdleRun)
         ELSE /\ UNCHANGED processed_files
              /\ SetRun("main", IdleRun)
    /\ UNCHANGED << rt, conf, svcv, dir, shared, files, skipped, mon_pc, cli, restored, faults >>

\* run: the end of a cycle (the sleep) and the return to the listing
MonSleep ==
    /\ mode = "monitor" /\ mon_pc = "loop"
    /\ files = {} /\ run["main"].pc = "idle"
    /\ mon_pc' = "list"
    /\ UNCHANGED << rt, conf, svcv, dir, shared, processed_files, files, skipped, cli, run, restored, faults >>

\* ------------------------------------------------- tool CLI (mssql_tool.py)

\* The process before main has read anything.
CliIdle ==
    [ pc    |-> "start",  \* "running" | "emitted" (terminal event written) | "exited"
      event |-> None,     \* type of the last terminal event written
      code  |-> -1,       \* return value of main, the exit code once exited
      evs   |-> << >>,    \* the terminal events written, in order
      last  |-> None,     \* type of the last line written to STDOUT
      intr  |-> FALSE ]   \* a KeyboardInterrupt was raised in main

\* output_message of a terminal event, followed by the return of code
Emit(c, type, code) ==
    [c EXCEPT !.pc = "emitted", !.event = type, !.code = code,
              !.evs = Append(c.evs, type), !.last = type]

\* What main may find on STDIN instead of a restore command with a resource.
BadInputs == {"no_input", "empty", "invalid_json", "unknown_command", "missing_resource"}

\* main and process_restore_command: the error event and return 1 for no
\* input, an empty command, invalid JSON, an unknown command, a missing resource
CliReject(inp) ==
    /\ mode = "cli" /\ cli.pc = "start"
    /\ inp \in BadInputs
    /\ cli' = Emit(cli, "error", 1)
    /\ UNCHANGED << rt, conf, svcv, dir, shared, processed_files, files, skipped, mon_pc, run, restored, faults >>

\* process_restore_command: the progress event, then the resource is
\* resolved (a file:// URI of a file of the directory) and process_backup is
\* called on it
CliStart(f) ==
    /\ mode = "cli" /\ cli.pc = "start"
    /\ IF f \notin dir
       THEN /\ cli' = Emit([cli EXCEPT !.last = "progress"], "error", 1)
            /\ UNCHANGED run
       ELSE /\ cli' = [cli EXCEPT !.pc = "running", !.last = "progress"]
            /\ SetRun("main", [IdleRun EXCEPT !.pc = "pb_start", !.file = f])
    /\ UNCHANGED << rt, conf, svcv, dir, shared, processed_files, files, skipped, mon_pc, restored, faults >>

\* process_restore_command: the result event and return 0, or the error
\* event and return 1
CliEnd ==
    /\ mode = "cli" /\ cli.pc = "running"
    /\ run["main"].pc \in {"returned", "raised"}
    /\ cli' = IF run["main"].pc = "returned"
              THEN Emit(cli, "result", 0)
              ELSE Emit(cli, "error", 1)
    /\ UNCHANGED << rt, conf, svcv, dir, shared, processed_files, files, skipped, mon_pc, run, restored, faults >>

\* main returns and sys.exit takes its value
CliReturn ==
    /\ mode = "cli" /\ cli.pc = "emitted"
    /\ cli' = [cli EXCEPT !.pc = "exited"]
    /\ UNCHANGED << rt, conf, svcv, dir, shared, processed_files, files, skipped, mon_pc, run, restored, faults >>

\* A KeyboardInterrupt is raised somewhere inside the try of main (no handler
\* of process_restore_command or of the processor catches it; their finally
\* blocks run): main writes the INTERRUPTED error event and returns 130
CliInterrupt ==
    /\ mode = "cli" /\ cli.pc \in {"start", "running", "emitted"}
    /\ cli' = [Emit(cli, "error", 130) EXCEPT !.pc = "exited", !.intr = TRUE]
    /\ IF run["main"].pc \in {"idle", "returned", "raised"}
       THEN UNCHANGED run
       ELSE SetRun("main", T_Raise(run["main"], "KeyboardInterrupt"))
    /\ UNCHANGED << rt, conf, svcv, dir, shared, processed_files, files, skipped, mon_pc, restored, faults >>

\* ================================================ src/ingestion_service
\* ------------------------------------------------- BackupFileHandler

\* The terminal status callbacks (completed, failed) an on_created that has
\* ended made: none when it returned on a file that did not stabilise.
TerminalStatuses(r) == IF r.status \in {"success", "failed"} THEN 1 ELSE 0

\* on_created reports the terminal status and returns
OnCreatedEnd(r, status, reason) ==
    [Ended(IF status = "success" THEN r ELSE Scratch(r))
        EXCEPT !.pc = "done", !.status = status, !.reason = reason]

\* An exception leaves an attempt of process_rar_file: its finally removes
\* the temporary directory, its wrapper retries or re-raises into on_created.
RaiseRar(r, reason) ==
    LET q == [Scratch(r) EXCEPT !.tmp = FALSE, !.cur = Orig] IN
    IF RetryAgain(r.a_rar)
    THEN [q EXCEPT !.pc = "s_rar", !.a_rar = r.a_rar + 1, !.a_pbf = 0, !.a_rb = 0]
    ELSE OnCreatedEnd(q, "failed", reason)

\* An exception leaves an attempt of process_backup_file: its wrapper retries
\* or re-raises into the caller (on_created, or process_rar_file).
RaisePbf(r, reason) ==
    IF RetryAgain(r.a_pbf)
    THEN [Scratch(r) EXCEPT !.pc = "s_pbf", !.a_pbf = r.a_pbf + 1, !.a_rb = 0]
    ELSE IF r.cur = Orig THEN OnCreatedEnd(r, "failed", reason)
    ELSE RaiseRar(r, reason)

\* An exception leaves an attempt of restore_backup: its finally closes the
\* connection, its wrapper retries or re-raises into process_backup_file.
RaiseRb(r, reason) ==
    LET q == Scratch(r) IN
    IF RetryAgain(r.a_rb)
    THEN [q EXCEPT !.pc = "s_rb", !.a_rb = r.a_rb + 1]
    ELSE RaisePbf(q, reason)

\* restore_backup's finally: the copy in the shared directory is removed
\* when temp_backup_path is set and the file exists
RemoveCopy(r) == IF r.tpath THEN shared \ {BackupName(r)} ELSE shared

\* process_backup_file returned None: on_created reports failed; inside
\* process_rar_file the next .dat file is tried, and None is returned when
\* none is left
PbfNone(r) ==
    LET q == Scratch(r) IN
    IF r.cur = Orig THEN OnCreatedEnd(q, "failed", "DatabaseRestoreFailure")
    ELSE IF r.cur < r.ncand
         THEN [q EXCEPT !.pc = "s_pbf", !.cur = r.cur + 1, !.a_pbf = 1, !.a_rb = 0]
         ELSE OnCreatedEnd(q, "failed", "DatabaseRestoreFailure")

\* on_created: the stability wait and the dispatch on the extension
S_Stability(t) ==
    /\ run[t].pc = "s_stab"
    /\ LET r == run[t] IN
         IF r.file \notin dir
         THEN SetRun(t, OnCreatedEnd(r, "failed", "OSError"))
         ELSE \/ SetRun(t, OnCreatedEnd(r, "deferred", "NotStable"))
              \/ /\ r.file.ext = ".rar"
                 /\ SetRun(t, [r EXCEPT !.pc = "s_rar", !.a_rar = 1, !.stable = TRUE])
              \/ /\ r.file.ext = ".dat"
                 /\ SetRun(t, [r EXCEPT !.pc = "s_pbf", !.a_pbf = 1, !.stable = TRUE])
    /\ UNCHANGED << rt, conf, toolv, svcv, dir, shared, restored, faults >>

\* process_rar_file: one attempt up to the first .dat file found (every
\* extraction of the archive finds the same files)
S_Rar(t) ==
    /\ run[t].pc = "s_rar"
    /\ LET r == run[t] IN
         IF r.file \notin dir
         THEN /\ SetRun(t, RaiseRar(r, "FileNotFoundError"))
              /\ UNCHANGED faults
         ELSE \/ /\ CanFail /\ Fault
                 /\ SetRun(t, RaiseRar([r EXCEPT !.failed = TRUE], "ExtractionError"))
              \/ /\ UNCHANGED faults
                 /\ \E n \in (IF r.ncand = 0 THEN 0..MaxCands ELSE {r.ncand}) :
                      IF n = 0
                      THEN SetRun(t, OnCreatedEnd([r EXCEPT !.nocand = TRUE],
                                                  "failed", "DatabaseRestoreFailure"))
                      ELSE SetRun(t, [r EXCEPT !.pc = "s_pbf", !.tmp = TRUE, !.ncand = n,
                                               !.cur = 1, !.a_pbf = 1, !.a_rb = 0])
    /\ UNCHANGED << rt, conf, toolv, svcv, dir, shared, restored >>

\* process_backup_file: one attempt up to the call of restore_backup
S_Pbf(t) ==
    /\ run[t].pc = "s_pbf"
    /\ LET r == run[t] IN
         IF ~Exists(r)
         THEN SetRun(t, RaisePbf(r, "FileNotFoundError"))
         ELSE SetRun(t, [r EXCEPT !.pc = "s_rb", !.a_rb = 1])
    /\ UNCHANGED << rt, conf, toolv, svcv, dir, shared, restored, faults >>

\* restore_backup: one attempt up to the copy into the shared directory
S_Rb(t) ==
    /\ run[t].pc = "s_rb"
    /\ LET r == run[t] IN
         IF ~Exists(r)
         THEN /\ SetRun(t, RaiseRb(r, "FileNotFoundError"))
              /\ UNCHANGED << shared, faults >>
         ELSE \/ /\ CanFail /\ Fault
                 /\ shared' = shared \ {BackupName(r)}
                 /\ SetRun(t, RaiseRb([r EXCEPT !.failed = TRUE], "CopyError"))
              \/ /\ UNCHANGED faults
                 /\ shared' = shared \cup {BackupName(r)}
                 /\ SetRun(t, [r EXCEPT !.pc = "s_connect", !.tpath = TRUE])
    /\ UNCHANGED << rt, conf, toolv, svcv, dir, restored >>

\* restore_backup: pymssql.connect
S_Connect(t) ==
    /\ run[t].pc = "s_connect"
    /\ LET r == run[t] IN
         \/ /\ CanFail /\ Fault
            /\ shared' = RemoveCopy(r)
            /\ SetRun(t, RaiseRb([r EXCEPT !.failed = TRUE], "OperationalError"))
         \/ /\ UNCHANGED << faults, shared >>
            /\ SetRun(t, [r EXCEPT !.pc = "s_manifest", !.conn = TRUE])
    /\ UNCHANGED << rt, conf, toolv, svcv, dir, restored >>

\* restore_backup: RESTORE FILELISTONLY and the empty-manifest check
S_Manifest(t) ==
    /\ run[t].pc = "s_manifest"
    /\ LET r == [run[t] EXCEPT !.n_man = Count(run[t].n_man)] IN
         \/ /\ CanFail /\ Fault
            /\ UNCHANGED shared
            /\ SetRun(t, [r EXCEPT !.pc = "s_fb_restore", !.failed = TRUE])
         \/ /\ UNCHANGED faults
            /\ \E m \in Manifests :
                 IF m = << >>
                 THEN /\ shared' = RemoveCopy(r)
                      /\ SetRun(t, PbfNone([r EXCEPT !.empty = TRUE]))
                 ELSE /\ UNCHANGED shared
                      /\ SetRun(t, [r EXCEPT !.pc = "s_restore", !.file_info = m])
    /\ UNCHANGED << rt, conf, toolv, svcv, dir, restored >>

\* restore_backup: the name, the file list and the RESTORE DATABASE command
S_Restore(t) ==
    /\ run[t].pc = "s_restore"
    /\ LET r == run[t]
           q == [r EXCEPT !.db = DbName(r.file_info, None),
                          !.flist = FileList(r.file_info),
                          !.issued = TRUE, !.n_res = Count(r.n_res)]
       IN  \/ /\ CanFail /\ Fault
              /\ SetRun(t, [q EXCEPT !.pc = "s_fb_restore", !.failed = TRUE, !.rfail = TRUE,
                                      !.file_info = << >>, !.flist = << >>])
           \/ /\ UNCHANGED faults
              /\ SetRun(t, [q EXCEPT !.pc = "s_poll", !.polls = 0])
    /\ UNCHANGED << rt, conf, toolv, svcv, dir, shared, restored >>

\* A wait of the service that returns on every state but RESTORING.
S_PollDoneNotRestoring(state) == state \notin {"absent", "RESTORING", "error"}

\* _wait_for_db_online returns True on this sample
S_PollDone(state) == state = "ONLINE"

\* process_backup_file after restore_backup returned its result
AfterRestore(r) ==
    [r EXCEPT !.pc = "s_archive", !.conn = FALSE, !.tpath = FALSE, !.polls = 0,
              !.a_rar = 0, !.a_pbf = 0, !.a_rb = 0]

\* one pass of the loop of _wait_for_db_online (a failing query counts as
\* a sample that is not ONLINE), or its timeout
S_Poll(t) ==
    /\ run[t].pc \in {"s_poll", "s_fb_poll"}
    /\ LET r == run[t] IN
         IF r.polls >= MaxPolls
         THEN /\ shared' = RemoveCopy(r)
              /\ SetRun(t, RaiseRb([r EXCEPT !.timed_out = TRUE], "TimeoutError"))
              /\ UNCHANGED restored
         ELSE \E s \in States \cup {"error"} :
                 IF S_PollDone(s)
                 THEN /\ restored' =
                           IF s = "ONLINE" THEN restored \cup {r.file} ELSE restored
                      /\ LET q == [r EXCEPT !.polls = 0,
                                            !.online = IF s = "ONLINE" THEN r.db ELSE r.online,
                                            !.again = r.again \/ (s = "ONLINE" /\ r.file \in restored)]
                         IN  IF r.pc = "s_poll"
                             THEN /\ shared' = RemoveCopy(r)
                                  /\ SetRun(t, AfterRestore(q))
                             ELSE /\ UNCHANGED shared
                                  /\ SetRun(t, [q EXCEPT !.pc = "s_fb_files"])
                 ELSE /\ SetRun(t, [r EXCEPT !.polls = r.polls + 1])
                      /\ UNCHANGED << shared, restored >>
    /\ UNCHANGED << rt, conf, toolv, svcv, dir, faults >>

\* restore_backup, except pymssql.Error: the simplified RESTORE DATABASE
\* under a generated name
S_FbRestore(t) ==
    /\ run[t].pc = "s_fb_restore"
    /\ LET r == run[t]
           q == [r EXCEPT !.db = GenName, !.issued = TRUE, !.fb = TRUE,
                          !.n_res = Count(r.n_res)]
       IN  \/ /\ CanFail /\ Fault
              /\ shared' = RemoveCopy(r)
              /\ SetRun(t, RaiseRb([q EXCEPT !.failed = TRUE], "OperationalError"))
           \/ /\ UNCHANGED << faults, shared >>
              /\ SetRun(t, [q EXCEPT !.pc = "s_fb_poll", !.polls = 0])
    /\ UNCHANGED << rt, conf, toolv, svcv, dir, restored >>

\* The file lists sys.database_files may report.
CatalogLists == { << >>, << "MyDB" >>, << "MyDB", "MyDB_log" >> }

\* restore_backup, except pymssql.Error: the file list from the engine's catalog
S_FbFiles(t) ==
    /\ run[t].pc = "s_fb_files"
    /\ LET r == run[t] IN
         \/ /\ CanFail /\ Fault
            /\ shared' = RemoveCopy(r)
            /\ SetRun(t, RaiseRb([r EXCEPT !.failed = TRUE], "OperationalError"))
         \/ /\ UNCHANGED faults
            /\ shared' = RemoveCopy(r)
            /\ \E l \in CatalogLists : SetRun(t, AfterRestore([r EXCEPT !.flist = l]))
    /\ UNCHANGED << rt, conf, toolv, svcv, dir, restored >>

\* process_backup_file: the archival of the restored file (a failure is
\* logged) and the return of the database name; for a file of an archive,
\* process_rar_file then removes the temporary directory and archives the
\* archive (a failure is logged); on_created reports completed
S_Archive(t) ==
    /\ run[t].pc = "s_archive"
    /\ LET r == run[t] IN
         \/ /\ r.file \in dir
            /\ UNCHANGED faults
            /\ dir' = dir \ {r.file}
            /\ SetRun(t, OnCreatedEnd(r, "success", None))
         \/ /\ \/ r.file \notin dir /\ UNCHANGED faults
               \/ r.file \in dir /\ CanFail /\ Fault
            /\ UNCHANGED dir
            /\ SetRun(t, OnCreatedEnd([r EXCEPT !.arch_fail = TRUE], "success", None))
    /\ UNCHANGED << rt, conf, toolv, svcv, shared, restored >>

\* on_created returns to the thread that dispatched the event
S_Return(t) ==
    /\ run[t].pc = "done"
    /\ SetRun(t, IdleRun)
    /\ UNCHANGED << rt, conf, toolv, svcv, dir, shared, restored, faults >>

\* on_created up to the stability wait: it returns at once for a path that
\* holds a marker or does not end with one of the patterns
OnCreated(f) ==
    IF HasMarker(f) \/ f.ext \notin file_patterns
    THEN IdleRun
    ELSE [IdleRun EXCEPT !.pc = "s_stab", !.file = f]

\* ------------------------------------------------- service BackupMonitor

\* start: the observer thread is started
StartObserver ==
    /\ mode = "service" /\ scan = "todo"
    /\ observer' = TRUE
    /\ scan' = "listing"
    /\ UNCHANGED << rt, conf, toolv, dir, shared, run, queue, scan_list, restored, faults >>

\* _process_existing_files: os.listdir
ScanList ==
    /\ mode = "service" /\ scan = "listing"
    /\ scan_list' = dir
    /\ scan' = "running"
    /\ UNCHANGED << rt, conf, toolv, dir, shared, run, observer, queue, restored, faults >>

\* _process_existing_files: one entry of the listing; a regular file that
\* matches the patterns is dispatched to the handler in the main thread
ScanNext(f) ==
    /\ mode = "service" /\ scan = "running"
    /\ f \in scan_list
    /\ run["main"].pc = "idle"
    /\ scan_list' = scan_list \ {f}
    /\ IF f \in dir /\ f.ext \in file_patterns
       THEN SetRun("main", OnCreated(f))
       ELSE UNCHANGED run
    /\ UNCHANGED << rt, conf, toolv, dir, shared, observer, queue, scan, restored, faults >>

\* _process_existing_files returns; start enters its sleep loop
ScanDone ==
    /\ mode = "service" /\ scan = "running"
    /\ scan_list = {} /\ run["main"].pc = "idle"
    /\ scan' = "done"
    /\ UNCHANGED << rt, conf, toolv, dir, shared, run, observer, queue, scan_list, restored, faults >>

\* the observer thread takes the next creation event and calls on_created
ObserverDispatch ==
    /\ mode = "service" /\ observer
    /\ queue # << >>
    /\ run["observer"].pc = "idle"
    /\ queue' = Tail(queue)
    /\ SetRun("observer", OnCreated(Head(queue)))
    /\ UNCHANGED << rt, conf, toolv, dir, shared, observer, scan, scan_list, restored, faults >>

\* ------------------------------------------------- environment

\* A file is dropped into the watched directory (anew, under a name not in
\* use and not being processed).  With the observer running, a creation
\* event is queued for it.
Drop(f) ==
    /\ f \notin dir
    /\ \A t \in Threads : run[t].pc = "idle" \/ run[t].file # f
    /\ dir' = dir \cup {f}
    /\ restored' = restored \ {f}
    /\ IF observer
       THEN /\ Len(queue) < MaxQueue
            /\ queue' = Append(queue, f)
       ELSE UNCHANGED queue
    /\ UNCHANGED << rt, conf, toolv, shared, run, observer, scan, scan_list, faults >>

\* A file arrives while the monitor of the tool runs, or after the service
\* has finished its startup scan.
Arrive(f) ==
    /\ mode = "monitor" \/ (mode = "service" /\ scan = "done")
    /\ Drop(f)

\* A file arrives while the service is starting: before the observer is
\* started, or between its start and the end of the startup scan.
ArriveDuringStartup(f) ==
    /\ mode = "service" /\ scan # "done"
    /\ Drop(f)

\* The state before anything runs.
Quiet ==
    /\ shared = {}
    /\ processed_files = {}
    /\ files = {}
    /\ skipped = {}
    /\ mon_pc = "list"
    /\ cli = CliIdle
    /\ run = [t \in Threads |-> IdleRun]
    /\ observer = FALSE
    /\ queue = << >>
    /\ scan = "todo"
    /\ scan_list = {}
    /\ restored = {}

Init ==
    /\ Quiet
    /\ mode \in {"monitor", "cli", "service"}
    /\ dir \in SUBSET Files
    /\ archive_processed \in (IF mode = "service" THEN {TRUE} ELSE BOOLEAN)
    /\ target_db_name \in (IF mode = "cli" THEN {None, "Target"} ELSE {None})
    /\ faults = MaxFaults
    /\ counted = FALSE
    /\ rt = NoRetry

Next ==
    \/ MonFind
    \/ \E f \in Files : ProcessFileBegin(f)
    \/ ProcessFileEnd
    \/ MonSleep
    \/ \E inp \in BadInputs : CliReject(inp)
    \/ \E f \in Files : CliStart(f)
    \/ CliEnd
    \/ CliReturn
    \/ CliInterrupt
    \/ \E t \in Threads : T_Start(t)
    \/ \E t \in Threads : T_Extract(t)
    \/ \E t \in Threads : T_Copy(t)
    \/ \E t \in Threads : T_Connect(t)
    \/ \E t \in Threads : T_Manifest(t)
    \/ \E t \in Threads : T_Restore(t)
    \/ \E t \in Threads : T_Poll(t)
    \/ \E t \in Threads : T_Archive(t)
    \/ StartObserver
    \/ ScanList
    \/ \E f \in Files : ScanNext(f)
    \/ ScanDone
    \/ ObserverDispatch
    \/ \E t \in Threads : S_Stability(t)
    \/ \E t \in Threads : S_Rar(t)
    \/ \E t \in Threads : S_Pbf(t)
    \/ \E t \in Threads : S_Rb(t)
    \/ \E t \in Threads : S_Connect(t)
    \/ \E t \in Threads : S_Manifest(t)
    \/ \E t \in Threads : S_Restore(t)
    \/ \E t \in Threads : S_Poll(t)
    \/ \E t \in Threads : S_FbRestore(t)
    \/ \E t \in Threads : S_FbFiles(t)
    \/ \E t \in Threads : S_Archive(t)
    \/ \E t \in Threads : S_Return(t)
    \/ \E f \in Files : Arrive(f)

\* The tool (monitor and CLI) and the service, any number of environment
\* failures; files reach the service before its start or after its startup scan.
Spec == Init /\ [][Next]_vars

\* The service with files arriving at any time, so that the observer thread
\* and the startup scan of the main thread overlap; a bounded number of
\* environment failures.
InitRace ==
    /\ Quiet
    /\ mode = "service"
    /\ dir \in SUBSET RaceFiles
    /\ archive_processed = TRUE
    /\ target_db_name = None
    /\ faults = MaxFaults
    /\ counted = TRUE
    /\ rt = NoRetry

NextRace ==
    \/ StartObserver
    \/ ScanList
    \/ \E f \in RaceFiles : ScanNext(f)
    \/ ScanDone
    \/ ObserverDispatch
    \/ \E t \in Threads : S_Stability(t)
    \/ \E t \in Threads : S_Pbf(t)
    \/ \E t \in Threads : S_Rb(t)
    \/ \E t \in Threads : S_Connect(t)
    \/ \E t \in Threads : S_Manifest(t)
    \/ \E t \in Threads : S_Restore(t)
    \/ \E t \in Threads : S_Poll(t)
    \/ \E t \in Threads : S_FbRestore(t)
    \/ \E t \in Threads : S_FbFiles(t)
    \/ \E t \in Threads : S_Archive(t)
    \/ \E t \in Threads : S_Return(t)
    \/ \E f \in RaceFiles : Arrive(f)
    \/ \E f \in RaceFiles : ArriveDuringStartup(f)

SpecRace == InitRace /\ [][NextRace]_vars

\* One call through a retry loop: the decorator of the service or the
\* connection loop of the tool, for every configured number of attempts up
\* to MaxN and every sequence of outcomes of the wrapped operation.
InitRetry ==
    /\ Quiet
    /\ mode = "retry"
    /\ dir = {}
    /\ archive_processed = TRUE
    /\ target_db_name = None
    /\ faults = 0
    /\ counted = FALSE
    /\ \E kind \in {"decorator", "connect"}, n \in 0..MaxN :
         \E outcomes \in [1..n -> Values \cup Errors] :
            rt = [NoRetry EXCEPT !.kind = kind, !.n = n, !.outcomes = outcomes,
                                 !.pc = "loop"]

NextRetry == Wrapper \/ ConnectLoop

SpecRetry == InitRetry /\ [][NextRetry]_vars

\* The two monitors on a directory that also holds names with a marker and
\* names of other types; no call into the environment fails.
InitNames ==
    /\ Quiet
    /\ mode \in {"monitor", "service"}
    /\ dir \in SUBSET Names
    /\ archive_processed = TRUE
    /\ target_db_name = None
    /\ faults = 0
    /\ counted = TRUE
    /\ rt = NoRetry

NextNames ==
    \/ MonFind
    \/ \E f \in Names : ProcessFileBegin(f)
    \/ ProcessFileEnd
    \/ MonSleep
    \/ \E t \in Threads : T_Start(t)
    \/ \E t \in Threads : T_Copy(t)
    \/ \E t \in Threads : T_Connect(t)
    \/ \E t \in Threads : T_Manifest(t)
    \/ \E t \in Threads : T_Restore(t)
    \/ \E t \in Threads : T_Poll(t)
    \/ \E t \in Threads : T_Archive(t)
    \/ StartObserver
    \/ ScanList
    \/ \E f \in Names : ScanNext(f)
    \/ ScanDone
    \/ ObserverDispatch
    \/ \E t \in Threads : S_Stability(t)
    \/ \E t \in Threads : S_Pbf(t)
    \/ \E t \in Threads : S_Rb(t)
    \/ \E t \in Threads : S_Connect(t)
    \/ \E t \in Threads : S_Manifest(t)
    \/ \E t \in Threads : S_Restore(t)
    \/ \E t \in Threads : S_Poll(t)
    \/ \E t \in Threads : S_Archive(t)
    \/ \E t \in Threads : S_Return(t)
    \/ \E f \in Names : Arrive(f)

SpecNames == InitNames /\ [][NextNames]_vars

\* The files handed over in the behaviours of SpecDispatch: a backup, an
\* archive and a file of another type.
DispatchFiles == {DatFile, RarFile, TxtFile}

\* The tool (CLI and monitor) and the service on a directory that also holds
\* a file of another type; at most MaxFaults calls into the environment fail.
InitDispatch ==
    /\ Quiet
    /\ mode \in {"monitor", "cli", "service"}
    /\ dir \in SUBSET DispatchFiles
    /\ archive_processed = TRUE
    /\ target_db_name = None
    /\ faults = MaxFaults
    /\ counted = TRUE
    /\ rt = NoRetry

NextDispatch ==
    \/ MonFind
    \/ \E f \in DispatchFiles : ProcessFileBegin(f)
    \/ ProcessFileEnd
    \/ MonSleep
    \/ \E f \in DispatchFiles : CliStart(f)
    \/ CliEnd
    \/ CliReturn
    \/ \E t \in Threads : T_Start(t)
    \/ \E t \in Threads : T_Extract(t)
    \/ \E t \in Threads : T_Copy(t)
    \/ \E t \in Threads : T_Connect(t)
    \/ \E t \in Threads : T_Manifest(t)
    \/ \E t \in Threads : T_Restore(t)
    \/ \E t \in Threads : T_Poll(t)
    \/ \E t \in Threads : T_Archive(t)
    \/ StartObserver
    \/ ScanList
    \/ \E f \in DispatchFiles : ScanNext(f)
    \/ ScanDone
    \/ ObserverDispatch
    \/ \E t \in Threads : S_Stability(t)
    \/ \E t \in Threads : S_Rar(t)
    \/ \E t \in Threads : S_Pbf(t)
    \/ \E t \in Threads : S_Rb(t)
    \/ \E t \in Threads : S_Connect(t)
    \/ \E t \in Threads : S_Manifest(t)
    \/ \E t \in Threads : S_Restore(t)
    \/ \E t \in Threads : S_Poll(t)
    \/ \E t \in Threads : S_FbRestore(t)
    \/ \E t \in Threads : S_FbFiles(t)
    \/ \E t \in Threads : S_Archive(t)
    \/ \E t \in Threads : S_Return(t)
    \/ \E f \in DispatchFiles : Arrive(f)

SpecDispatch == InitDispatch /\ [][NextDispatch]_vars

\* ------------------------------------------------- shutdown
\* An orchestrator invocation is in progress: it was entered and has neither
\* returned nor raised.
InFlight(r) == r.pc \notin {"idle", "returned", "raised", "done", "interrupted"}

\* A KeyboardInterrupt or SystemExit leaves the invocation: no handler of
\* the orchestrator catches it (they catch Exception), its finally blocks run.
Interrupted(r, reason) ==
    [Ended(Scratch(r)) EXCEPT !.pc = "interrupted", !.reason = reason]

\* tool BackupMonitor.run: a KeyboardInterrupt is raised in the main thread,
\* wherever it is inside the try of run (the listing, process_file and the
\* process_backup it calls, the sleep); run logs it and returns
MonInterrupt ==
    /\ mode = "monitor" /\ mon_pc # "stopped"
    /\ mon_pc' = "stopped"
    /\ files' = {}
    /\ SetRun("main", IF InFlight(run["main"])
                      THEN Interrupted(run["main"], "KeyboardInterrupt")
                      ELSE IdleRun)
    /\ UNCHANGED << rt, conf, svcv, dir, shared, processed_files, skipped, cli, restored, faults >>

\* service signal_handler (SIGINT, SIGTERM), run by the main thread wherever
\* it is (the startup scan and the on_created it calls, the sleep loop):
\* monitor.stop sets the stop event and stops the observer
SignalHandler ==
    /\ mode = "service" /\ scan \in {"listing", "running", "done"}
    /\ scan' = "stopping"
    /\ observer' = FALSE
    /\ queue' = << >>
    /\ scan_list' = {}
    /\ SetRun("main", IF InFlight(run["main"])
                      THEN [run["main"] EXCEPT !.pc = "suspended"]
                      ELSE IdleRun)
    /\ UNCHANGED << rt, conf, toolv, dir, shared, restored, faults >>

\* service signal_handler: observer.join returns when the observer thread has
\* left the handler it was in; sys.exit(0) then raises SystemExit in the main
\* thread, inside the on_created the signal found it in
StopJoin ==
    /\ mode = "service" /\ scan = "stopping"
    /\ ~InFlight(run["observer"])
    /\ scan' = "stopped"
    /\ LET r == run["main"] IN
         IF r.pc = "suspended"
         THEN /\ SetRun("main", Interrupted(r, "SystemExit"))
              /\ shared' = RemoveCopy(r)
         ELSE UNCHANGED << run, shared >>
    /\ UNCHANGED << rt, conf, toolv, dir, observer, queue, scan_list, restored, faults >>

\* The two monitors, files arriving while they run, and a stop (Ctrl-C, a
\* termination signal) at any time; at most MaxFaults calls into the
\* environment fail.
InitStop ==
    /\ Quiet
    /\ mode \in {"monitor", "service"}
    /\ dir \in SUBSET Files
    /\ archive_processed = TRUE
    /\ target_db_name = None
    /\ faults = MaxFaults
    /\ counted = TRUE
    /\ rt = NoRetry

NextStop ==
    \/ MonFind
    \/ \E f \in Files : ProcessFileBegin(f)
    \/ ProcessFileEnd
    \/ MonSleep
    \/ MonInterrupt
    \/ \E t \in Threads : T_Start(t)
    \/ \E t \in Threads : T_Extract(t)
    \/ \E t \in Threads : T_Copy(t)
    \/ \E t \in Threads : T_Connect(t)
    \/ \E t \in Threads : T_Manifest(t)
    \/ \E t \in Threads : T_Restore(t)
    \/ \E t \in Threads : T_Poll(t)
    \/ \E t \in Threads : T_Archive(t)
    \/ StartObserver
    \/ ScanList
    \/ \E f \in Files : ScanNext(f)
    \/ ScanDone
    \/ ObserverDispatch
    \/ SignalHandler
    \/ StopJoin
    \/ \E t \in Threads : S_Stability(t)
    \/ \E t \in Threads : S_Rar(t)
    \/ \E t \in Threads : S_Pbf(t)
    \/ \E t \in Threads : S_Rb(t)
    \/ \E t \in Threads : S_Connect(t)
    \/ \E t \in Threads : S_Manifest(t)
    \/ \E t \in Threads : S_Restore(t)
    \/ \E t \in Threads : S_Poll(t)
    \/ \E t \in Threads : S_FbRestore(t)
    \/ \E t \in Threads : S_FbFiles(t)
    \/ \E t \in Threads : S_Archive(t)
    \/ \E t \in Threads : S_Return(t)
    \/ \E f \in Files : Arrive(f)

SpecStop == InitStop /\ [][NextStop]_vars

\* ------------------------------------------------- the two monitors side by side
\* The sequences of arrivals: the i-th file dropped into the watched
\* directory is script[i].
Scripts == UNION { [1..n -> Files] : n \in 0..MaxArrivals }

\* One comparison: the polling monitor is run on the arrivals of the script,
\* then the event-driven monitor on the same arrivals.
Comparison(script) ==
    [ kind   |-> "equiv",
      script |-> script,
      next   |-> 1,     \* the arrival that comes next
      tool   |-> [restored |-> {}, dir |-> {}] ]   \* what the polling monitor ended with

\* The monitor has nothing left to do: the polling monitor has gone through
\* its listing and the next listing would be empty; the service has finished
\* its startup scan, the observer has no event and no handler is running.
Quiescent ==
    /\ \A t \in Threads : run[t].pc = "idle"
    /\ \/ mode = "monitor" /\ mon_pc = "loop" /\ files = {} /\ FindBackupFiles = {}
       \/ mode = "service" /\ scan = "done" /\ queue = << >>

\* the next file of the script is written into the watched directory, once
\* the monitor is through with the files before it; the observer, when
\* it runs, gets a creation event for a file that was not there
ScriptedArrive ==
    /\ rt.kind = "equiv" /\ rt.next <= Len(rt.script)
    /\ Quiescent
    /\ LET f == rt.script[rt.next] IN
         IF f \in dir
         THEN UNCHANGED << dir, restored, queue >>
         ELSE /\ dir' = dir \cup {f}
              /\ restored' = restored \ {f}
              /\ queue' = IF observer THEN Append(queue, f) ELSE queue
    /\ rt' = [rt EXCEPT !.next = rt.next + 1]
    /\ UNCHANGED << conf, toolv, shared, run, observer, scan, scan_list, faults >>

\* the polling monitor is through with the script: what it ended with is
\* kept, and the service is started on an empty directory for the same script
SwitchMonitor ==
    /\ rt.kind = "equiv" /\ mode = "monitor"
    /\ rt.next > Len(rt.script)
    /\ Quiescent
    /\ rt' = [rt EXCEPT !.tool = [restored |-> restored, dir |-> dir], !.next = 1]
    /\ mode' = "service"
    /\ dir' = {} /\ shared' = {} /\ restored' = {}
    /\ processed_files' = {} /\ files' = {} /\ skipped' = {} /\ mon_pc' = "list"
    /\ UNCHANGED << archive_processed, target_db_name, counted, cli, svcv, run, faults >>

\* The engine and the archive tool accept every file and every file has
\* reached its size when it is seen: no manifest is empty, no archive
\* without a backup, no wait times out, no call fails.
AcceptsAll ==
    \A t \in Threads :
        /\ ~run[t].empty /\ ~run[t].nocand /\ ~run[t].timed_out /\ ~run[t].failed
        /\ ~run[t].arch_fail /\ run[t].status # "deferred"

InitEquiv ==
    /\ Quiet
    /\ mode = "monitor"
    /\ dir = {}
    /\ archive_processed = TRUE
    /\ target_db_name = None
    /\ faults = 0
    /\ counted = TRUE
    /\ \E script \in Scripts : rt = Comparison(script)

\* A step in which the environment accepts: the call it holds succeeds.
AcceptedStep(A) == A /\ AcceptsAll'

NextEquiv ==
    \/ AcceptedStep(MonFind)
    \/ \E f \in Files : AcceptedStep(ProcessFileBegin(f))
    \/ AcceptedStep(ProcessFileEnd)
    \/ AcceptedStep(MonSleep)
    \/ \E t \in Threads : AcceptedStep(T_Start(t))
    \/ \E t \in Threads : AcceptedStep(T_Extract(t))
    \/ \E t \in Threads : AcceptedStep(T_Copy(t))
    \/ \E t \in Threads : AcceptedStep(T_Connect(t))
    \/ \E t \in Threads : AcceptedStep(T_Manifest(t))
    \/ \E t \in Threads : AcceptedStep(T_Restore(t))
    \/ \E t \in Threads : AcceptedStep(T_Poll(t))
    \/ \E t \in Threads : AcceptedStep(T_Archive(t))
    \/ AcceptedStep(StartObserver)
    \/ AcceptedStep(ScanList)
    \/ AcceptedStep(ScanDone)
    \/ AcceptedStep(ObserverDispatch)
    \/ \E t \in Threads : AcceptedStep(S_Stability(t))
    \/ \E t \in Threads : AcceptedStep(S_Rar(t))
    \/ \E t \in Threads : AcceptedStep(S_Pbf(t))
    \/ \E t \in Threads : AcceptedStep(S_Rb(t))
    \/ \E t \in Threads : AcceptedStep(S_Connect(t))
    \/ \E t \in Threads : AcceptedStep(S_Manifest(t))
    \/ \E t \in Threads : AcceptedStep(S_Restore(t))
    \/ \E t \in Threads : AcceptedStep(S_Poll(t))
    \/ \E t \in Threads : AcceptedStep(S_Archive(t))
    \/ \E t \in Threads : AcceptedStep(S_Return(t))
    \/ AcceptedStep(ScriptedArrive)
    \/ AcceptedStep(SwitchMonitor)

SpecEquiv == InitEquiv /\ [][NextEquiv]_vars

\* ------------------------------------------------- the engine on a script
\* An engine whose answers are written down: RESTORE FILELISTONLY returns
\* manifest, and the i-th state query of a wait returns samples[i].
EngineScript(manifest, samples) ==
    [ kind |-> "engine", manifest |-> manifest, samples |-> samples ]

\* The step of a run takes the answer the script holds for its query.
FollowsScript ==
    \A t \in Threads :
        /\ (run[t].pc = "t_manifest" /\ run'[t].pc # "t_manifest") =>
              IF rt.manifest = << >>
              THEN run'[t].empty
              ELSE run'[t].file_info = rt.manifest
        /\ (run[t].pc = "t_poll" /\ run[t].polls < MaxPolls) =>
              IF T_PollDone(rt.samples[run[t].polls + 1])
              THEN run'[t].pc = "t_archive"
              ELSE run'[t].pc = "t_poll"

ScriptedStep(A) == A /\ FollowsScript

\* The tool (monitor and CLI) against a scripted engine, for every manifest
\* and every sequence of samples that fits into the timeout; no call fails.
InitScenario ==
    /\ Quiet
    /\ mode \in {"monitor", "cli"}
    /\ dir \in SUBSET Files
    /\ archive_processed \in BOOLEAN
    /\ target_db_name \in (IF mode = "cli" THEN {None, "Target"} ELSE {None})
    /\ faults = 0
    /\ counted = TRUE
    /\ \E manifest \in Manifests, samples \in [1..MaxPolls -> States] :
         rt = EngineScript(manifest, samples)

NextScenario ==
    \/ ScriptedStep(MonFind)
    \/ \E f \in Files : ScriptedStep(ProcessFileBegin(f))
    \/ ScriptedStep(ProcessFileEnd)
    \/ ScriptedStep(MonSleep)
    \/ \E f \in Files : ScriptedStep(CliStart(f))
    \/ ScriptedStep(CliEnd)
    \/ ScriptedStep(CliReturn)
    \/ \E t \in Threads : ScriptedStep(T_Start(t))
    \/ \E t \in Threads : ScriptedStep(T_Extract(t))
    \/ \E t \in Threads : ScriptedStep(T_Copy(t))
    \/ \E t \in Threads : ScriptedStep(T_Connect(t))
    \/ \E t \in Threads : ScriptedStep(T_Manifest(t))
    \/ \E t \in Threads : ScriptedStep(T_Restore(t))
    \/ \E t \in Threads : ScriptedStep(T_Poll(t))
    \/ \E t \in Threads : ScriptedStep(T_Archive(t))

SpecScenario == InitScenario /\ [][NextScenario]_vars

\* ------------------------------------------------- a reporter that raises
\* BackupProcessor.progress_callback raises. The calls stand unguarded in
\* process_backup, _process_rar, _copy_to_shared_dir, _process_dat,
\* _restore_backup, _wait_for_db_online and _archive_file, so the exception
\* leaves process_backup; the call inside the connection loop stands in its
\* try, where the exception counts as a failed connection attempt.
T_ReportFails(t) ==
    /\ mode \in {"monitor", "cli"}
    /\ LET r == [run[t] EXCEPT !.cb_fail = TRUE] IN
         \/ /\ \/ r.pc = "pb_start" /\ r.file \in dir
               \/ r.pc \in {"t_extract", "t_validate", "t_restore", "t_poll", "t_archive"}
               \/ r.pc = "t_connect" /\ r.attempt = 0
            /\ SetRun(t, T_Raise(r, "ReporterError"))
         \/ /\ r.pc = "t_connect"
            /\ LET a == r.attempt + 1 IN
                 IF ConnectRetries(a)
                 THEN SetRun(t, [r EXCEPT !.attempt = a, !.failed = TRUE])
                 ELSE SetRun(t, T_Raise([r EXCEPT !.attempt = a, !.failed = TRUE],
                                        "ConnectionError"))
    /\ UNCHANGED << rt, conf, toolv, svcv, dir, shared, restored, faults >>

\* BackupFileHandler.status_callback raises inside update_file_status, which
\* logs the exception and returns: on_created goes on. The calls are the two
\* "processing" reports and the report of the end of on_created.
S_ReportFails(t) ==
    /\ mode = "service"
    /\ LET r == run[t] IN
         /\ \/ r.pc = "s_stab"
            \/ r.pc = "s_rar" /\ r.a_rar = 1 /\ r.a_pbf = 0
            \/ r.pc = "s_pbf" /\ r.cur = Orig /\ r.a_pbf = 1 /\ r.a_rb = 0
            \/ r.pc = "done" /\ r.status # "deferred"
         /\ ~r.cb_fail
         /\ SetRun(t, [r EXCEPT !.cb_fail = TRUE])
    /\ UNCHANGED << rt, conf, toolv, svcv, dir, shared, restored, faults >>

\* The tool and the service with a reporter that may raise at any of its
\* calls; no call into the environment fails, so the service never reaches
\* its simplified restore.
InitReport ==
    /\ Quiet
    /\ mode \in {"monitor", "cli", "service"}
    /\ dir \in SUBSET Files
    /\ archive_processed \in (IF mode = "service" THEN {TRUE} ELSE BOOLEAN)
    /\ target_db_name \in (IF mode = "cli" THEN {None, "Target"} ELSE {None})
    /\ faults = 0
    /\ counted = FALSE
    /\ rt = NoRetry

NextReport ==
    \/ MonFind
    \/ \E f \in Files : ProcessFileBegin(f)
    \/ ProcessFileEnd
    \/ MonSleep
    \/ \E f \in Files : CliStart(f)
    \/ CliEnd
    \/ CliReturn
    \/ \E t \in Threads : T_Start(t)
    \/ \E t \in Threads : T_Extract(t)
    \/ \E t \in Threads : T_Copy(t)
    \/ \E t \in Threads : T_Connect(t)
    \/ \E t \in Threads : T_Manifest(t)
    \/ \E t \in Threads : T_Restore(t)
    \/ \E t \in Threads : T_Poll(t)
    \/ \E t \in Threads : T_Archive(t)
    \/ \E t \in Threads : T_ReportFails(t)
    \/ StartObserver
    \/ ScanList
    \/ \E f \in Files : ScanNext(f)
    \/ ScanDone
    \/ ObserverDispatch
    \/ \E t \in Threads : S_Stability(t)
    \/ \E t \in Threads : S_Rar(t)
    \/ \E t \in Threads : S_Pbf(t)
    \/ \E t \in Threads : S_Rb(t)
    \/ \E t \in Threads : S_Connect(t)
    \/ \E t \in Threads : S_Manifest(t)
    \/ \E t \in Threads : S_Restore(t)
    \/ \E t \in Threads : S_Poll(t)
    \/ \E t \in Threads : S_Archive(t)
    \/ \E t \in Threads : S_Return(t)
    \/ \E t \in Threads : S_ReportFails(t)
    \/ \E f \in Files : Arrive(f)

SpecReport == InitReport /\ [][NextReport]_vars

\* A step of a run of the tool in which the call into the environment (the
\* archive tool, the copy, the engine) succeeded and the run went on.
T_Accepted(from, to) ==
    /\ run["main"].pc = from
    /\ \/ T_Extract("main") \/ T_Copy("main") \/ T_Connect("main")
       \/ T_Manifest("main") \/ T_Restore("main") \/ T_Poll("main")
    /\ run'["main"].pc = to

\* The two monitors on the files that are in the directory when they start:
\* in the tool any call into the environment may fail any number of times,
\* in the service at most MaxFaults calls of a behaviour fail.
InitLive ==
    /\ Quiet
    /\ mode \in {"monitor", "service"}
    /\ dir \in SUBSET Files
    /\ archive_processed \in (IF mode = "service" THEN {TRUE} ELSE BOOLEAN)
    /\ target_db_name = None
    /\ faults = MaxFaults
    /\ counted = (mode = "service")
    /\ rt = NoRetry

NextLive ==
    \/ MonFind
    \/ \E f \in Files : ProcessFileBegin(f)
    \/ ProcessFileEnd
    \/ MonSleep
    \/ \E t \in Threads : T_Start(t)
    \/ \E t \in Threads : T_Extract(t)
    \/ \E t \in Threads : T_Copy(t)
    \/ \E t \in Threads : T_Connect(t)
    \/ \E t \in Threads : T_Manifest(t)
    \/ \E t \in Threads : T_Restore(t)
    \/ \E t \in Threads : T_Poll(t)
    \/ \E t \in Threads : T_Archive(t)
    \/ StartObserver
    \/ ScanList
    \/ \E f \in Files : ScanNext(f)
    \/ ScanDone
    \/ \E t \in Threads : S_Stability(t)
    \/ \E t \in Threads : S_Rar(t)
    \/ \E t \in Threads : S_Pbf(t)
    \/ \E t \in Threads : S_Rb(t)
    \/ \E t \in Threads : S_Connect(t)
    \/ \E t \in Threads : S_Manifest(t)
    \/ \E t \in Threads : S_Restore(t)
    \/ \E t \in Threads : S_Poll(t)
    \/ \E t \in Threads : S_FbRestore(t)
    \/ \E t \in Threads : S_FbFiles(t)
    \/ \E t \in Threads : S_Archive(t)
    \/ \E t \in Threads : S_Return(t)

\* The main thread goes on while it has a step to make: every sleep ends,
\* every call returns or raises.
SpecLive == InitLive /\ [][NextLive]_vars /\ WF_vars(NextLive)

\* The polling monitor on the files that are in the directory when it
\* starts; any call into the environment may fail, any number of times.
InitAccept ==
    /\ Quiet
    /\ mode = "monitor"
    /\ dir \in SUBSET Files
    /\ archive_processed \in BOOLEAN
    /\ target_db_name = None
    /\ faults = MaxFaults
    /\ counted = FALSE
    /\ rt = NoRetry

NextAccept ==
    \/ MonFind
    \/ \E f \in Files : ProcessFileBegin(f)
    \/ ProcessFileEnd
    \/ MonSleep
    \/ \E t \in Threads : T_Start(t)
    \/ \E t \in Threads : T_Extract(t)
    \/ \E t \in Threads : T_Copy(t)
    \/ \E t \in Threads : T_Connect(t)
    \/ \E t \in Threads : T_Manifest(t)
    \/ \E t \in Threads : T_Restore(t)
    \/ \E t \in Threads : T_Poll(t)
    \/ \E t \in Threads : T_Archive(t)

\* The monitor goes on while it has a step to make, and the archive tool,
\* the copy and the engine do not refuse a file for ever: a call that is made
\* again and again succeeds again and again.  The move into archived/ is
\* under no such assumption.
Accepting ==
    /\ WF_vars(NextAccept)
    /\ SF_vars(T_Accepted("t_extract", "t_validate"))
    /\ SF_vars(T_Accepted("t_validate", "t_connect"))
    /\ SF_vars(T_Accepted("t_connect", "t_manifest"))
    /\ SF_vars(T_Accepted("t_manifest", "t_restore"))
    /\ SF_vars(T_Accepted("t_restore", "t_poll"))
    /\ SF_vars(T_Accepted("t_poll", "t_archive"))

SpecAccept == InitAccept /\ [][NextAccept]_vars /\ Accepting

\* ================================================= the wait loops alone
\* What one state query of _wait_for_db_online finds: a state_desc, no row,
\* or nothing (cursor.execute raises).
Samples == States \cup {"error"}

\* One call of _wait_for_db_online of the tool ("t_wait") or of the service
\* ("s_wait") against an engine that answers the i-th query with samples[i].
WaitCall(kind, samples) ==
    [ kind    |-> kind,
      samples |-> samples,
      pc      |-> "loop",   \* "returned" | "raised"
      polls   |-> 0,        \* state queries made
      sleeps  |-> 0,        \* time.sleep(check_interval) taken
      error   |-> None ]

\* one pass of the loop of _wait_for_db_online, or its timeout: the tool lets
\* the error of a failing query through, the service sleeps and polls again
WaitForDbOnline ==
    /\ rt.kind \in {"t_wait", "s_wait"} /\ rt.pc = "loop"
    /\ IF rt.polls >= MaxPolls
       THEN rt' = [rt EXCEPT !.pc = "raised", !.error = "TimeoutError"]
       ELSE LET s == rt.samples[rt.polls + 1]
                q == [rt EXCEPT !.polls = rt.polls + 1]
            IN  IF rt.kind = "t_wait" /\ s = "error"
                THEN rt' = [q EXCEPT !.pc = "raised", !.error = "OperationError"]
                ELSE IF (IF rt.kind = "t_wait" THEN T_PollDone(s) ELSE S_PollDone(s))
                     THEN rt' = [q EXCEPT !.pc = "returned"]
                     ELSE rt' = [q EXCEPT !.sleeps = rt.sleeps + 1]
    /\ UNCHANGED << conf, toolv, svcv, dir, shared, run, restored, faults >>

\* A wait loop on its own, for every sequence of answers that fits into the timeout.
InitPoll ==
    /\ Quiet
    /\ mode = "wait"
    /\ dir = {}
    /\ archive_processed = TRUE
    /\ target_db_name = None
    /\ faults = 0
    /\ counted = FALSE
    /\ \E kind \in {"t_wait", "s_wait"} :
         \E samples \in [1..MaxPolls -> Samples] : rt = WaitCall(kind, samples)

\* time passes: a loop that can make its next pass makes it
SpecPoll == InitPoll /\ [][WaitForDbOnline]_vars /\ WF_vars(WaitForDbOnline)

\* The sizes os.path.getsize may report.
Sizes == {100, 150, 200}

\* One call of _wait_for_file_stability on a file whose i-th size sample is
\* sizes[i] and which is gone from sample `gone` on (0: it stays).
StabilityCall(sizes, gone) ==
    [ kind      |-> "stability",
      sizes     |-> sizes,
      gone      |-> gone,
      pc        |-> "start",  \* "loop" | "returned" | "raised"
      taken     |-> 0,        \* size samples taken (or tried)
      last_size |-> 0,
      result    |-> None,
      error     |-> None ]

\* A detector that goes on comparing with the first sample.
KeepLastSize(current_size, last_size) == last_size

\* last_size = current_size
NextLastSize(current_size, last_size) == current_size

\* _wait_for_file_stability: the first sample (an OSError of it is raised),
\* then one pass of the loop: sleep, sample, compare; or the timeout
WaitForFileStability ==
    /\ rt.kind = "stability" /\ rt.pc \in {"start", "loop"}
    /\ LET i == rt.taken + 1
           isgone == rt.gone # 0 /\ rt.gone <= i
       IN  IF rt.pc = "start"
           THEN IF isgone
                THEN rt' = [rt EXCEPT !.pc = "raised", !.taken = i, !.error = "OSError"]
                ELSE rt' = [rt EXCEPT !.pc = "loop", !.taken = i, !.last_size = rt.sizes[i]]
           ELSE IF rt.taken >= MaxSamples
                THEN rt' = [rt EXCEPT !.pc = "returned", !.result = "False"]
                ELSE IF isgone
                     THEN rt' = [rt EXCEPT !.pc = "returned", !.taken = i, !.result = "False"]
                     ELSE IF rt.sizes[i] = rt.last_size
                          THEN rt' = [rt EXCEPT !.pc = "returned", !.taken = i,
                                                !.result = "True"]
                          ELSE rt' = [rt EXCEPT !.taken = i,
                                                !.last_size = NextLastSize(rt.sizes[i], rt.last_size)]
    /\ UNCHANGED << conf, toolv, svcv, dir, shared, run, restored, faults >>

\* The stability detector on its own, for every sequence of sizes that fits
\* into the timeout.
InitStab ==
    /\ Quiet
    /\ mode = "stability"
    /\ dir = {}
    /\ archive_processed = TRUE
    /\ target_db_name = None
    /\ faults = 0
    /\ counted = FALSE
    /\ \E sizes \in [1..MaxSamples -> Sizes], gone \in 0..MaxSamples :
         rt = StabilityCall(sizes, gone)

SpecStab == InitStab /\ [][WaitForFileStability]_vars

\* ============================================= src/tool/resource_resolver
\* urllib.parse.urlparse(resource_uri): the scheme ("" for a bare path), the
\* network location and the path.
Schemes == {"file", "http", "https", "s3", "ftp", ""}
Netlocs == {"", "host"}
Paths == {"/x.dat", "/"}
Uri(scheme, netloc, path) == [scheme |-> scheme, netloc |-> netloc, path |-> path]

\* What requests.get finds: a status code, or no server to talk to.
Responses == {"200", "404", "500", "unreachable"}
\* What the S3 download finds: no boto3 module, an object, or a failing download.
S3Outcomes == {"no_boto3", "downloaded", "failed"}

\* os.path.basename(path), and the key of an S3 object (path.lstrip("/"))
Basename(path) == IF path = "/x.dat" THEN "x.dat" ELSE ""

\* _resolve_file: //netloc/path for a URI with a network location, else the path
FilePath(uri) == [unc |-> uri.netloc, path |-> uri.path]

\* the file a download is written to: temp_dir/<basename>, or a generated name
LocalPath(uri, generated) ==
    [dir |-> "temp_dir",
     name |-> IF Basename(uri.path) = "" THEN generated ELSE Basename(uri.path)]

\* A dispatch that takes a bare path for a file URI.
RoutineBarePathAsFile(scheme) ==
    IF scheme \in {"file", ""} THEN "file"
    ELSE IF scheme \in {"http", "https"} THEN "http"
    ELSE IF scheme = "s3" THEN "s3"
    ELSE None

\* resolve: the routine the scheme is dispatched to (None: unsupported)
Routine(scheme) ==
    IF scheme = "file" THEN "file"
    ELSE IF scheme \in {"http", "https"} THEN "http"
    ELSE IF scheme = "s3" THEN "s3"
    ELSE None

\* response.raise_for_status() raises for a 4xx or 5xx status
RaiseForStatus(response) == response \in {"404", "500"}

\* no path: resolve has not returned
NoPath == [path |-> None]

\* One call of ResourceResolver.resolve on a URI, in a world where the path
\* of a file URI names a file or not, the HTTP server answers with response,
\* and the S3 download ends as s3.
ResolveCall(uri, isfile, response, s3) ==
    [ kind      |-> "resolve",
      uri       |-> uri,
      isfile    |-> isfile,
      response  |-> response,
      s3        |-> s3,
      pc        |-> "start",  \* "file" | "http" | "s3" | "returned" | "raised"
      routine   |-> None,     \* the routine entered
      fs        |-> 0,        \* file-system calls made (isfile, open)
      requests  |-> 0,        \* HTTP requests made
      downloads |-> 0,        \* S3 download_file calls made
      result    |-> NoPath,
      error     |-> [type |-> None, msg |-> None] ]

\* resolve: urlparse and the dispatch on the scheme
Resolve ==
    /\ rt.kind = "resolve" /\ rt.pc = "start"
    /\ LET routine == Routine(rt.uri.scheme) IN
         IF routine = None
         THEN rt' = [rt EXCEPT !.pc = "raised",
                               !.error = [type |-> "ValueError",
                                          msg |-> "Unsupported resource scheme"]]
         ELSE rt' = [rt EXCEPT !.pc = routine, !.routine = routine]
    /\ UNCHANGED << conf, toolv, svcv, dir, shared, run, restored, faults >>

\* _resolve_file
ResolveFile ==
    /\ rt.kind = "resolve" /\ rt.pc = "file"
    /\ IF rt.isfile
       THEN rt' = [rt EXCEPT !.pc = "returned", !.fs = rt.fs + 1, !.result = FilePath(rt.uri)]
       ELSE rt' = [rt EXCEPT !.pc = "raised", !.fs = rt.fs + 1,
                             !.error = [type |-> "FileNotFoundError", msg |-> "File not found"]]
    /\ UNCHANGED << conf, toolv, svcv, dir, shared, run, restored, faults >>

\* _resolve_http: one requests.get; a RequestException becomes an IOError
ResolveHttp ==
    /\ rt.kind = "resolve" /\ rt.pc = "http"
    /\ LET q == [rt EXCEPT !.requests = rt.requests + 1] IN
         IF rt.response = "unreachable" \/ RaiseForStatus(rt.response)
         THEN rt' = [q EXCEPT !.pc = "raised",
                              !.error = [type |-> "IOError", msg |-> "Failed to download"]]
         ELSE rt' = [q EXCEPT !.pc = "returned", !.fs = rt.fs + 1,
                              !.result = LocalPath(rt.uri, "download_T")]
    /\ UNCHANGED << conf, toolv, svcv, dir, shared, run, restored, faults >>

\* _resolve_s3: the import of boto3, the bucket and the key, one download_file
ResolveS3 ==
    /\ rt.kind = "resolve" /\ rt.pc = "s3"
    /\ IF rt.s3 = "no_boto3"
       THEN rt' = [rt EXCEPT !.pc = "raised",
                             !.error = [type |-> "ImportError", msg |-> "boto3 is required"]]
       ELSE IF rt.uri.netloc = "" \/ Basename(rt.uri.path) = ""
            THEN rt' = [rt EXCEPT !.pc = "raised",
                                  !.error = [type |-> "ValueError", msg |-> "Invalid S3 URI"]]
            ELSE LET q == [rt EXCEPT !.downloads = rt.downloads + 1] IN
                 IF rt.s3 = "downloaded"
                 THEN rt' = [q EXCEPT !.pc = "returned", !.fs = rt.fs + 1,
                                      !.result = LocalPath(rt.uri, "s3_download_T")]
                 ELSE rt' = [q EXCEPT !.pc = "raised",
                                      !.error = [type |-> "IOError",
                                                 msg |-> "Failed to download from S3"]]
    /\ UNCHANGED << conf, toolv, svcv, dir, shared, run, restored, faults >>

\* The resolver on its own, for every URI and every answer of the world.
InitResolve ==
    /\ Quiet
    /\ mode = "resolve"
    /\ dir = {}
    /\ archive_processed = TRUE
    /\ target_db_name = None
    /\ faults = 0
    /\ counted = FALSE
    /\ \E scheme \in Schemes, netloc \in Netlocs, path \in Paths :
         \E isfile \in BOOLEAN, response \in Responses, s3 \in S3Outcomes :
            rt = ResolveCall(Uri(scheme, netloc, path), isfile, response, s3)

NextResolve == Resolve \/ ResolveFile \/ ResolveHttp \/ ResolveS3

SpecResolve == InitResolve /\ [][NextResolve]_vars

\* ================================================================ claims

\* The run of a thread has ended: process_backup returned or raised,
\* on_created reported its terminal status.
RunEnded(r) == r.pc \in {"returned", "raised", "done"}
\* ... with a result.
RunSucceeded(r) == r.pc = "returned" \/ (r.pc = "done" /\ r.status = "success")

\* C1: in the polling monitor a name enters processed_files only in the step
\* of process_file that follows a process_backup which returned its result,
\* and it is the name of that file; a process_file whose process_backup
\* raised leaves processed_files unchanged, and the file, if still in the
\* directory, is in the next listing of _find_backup_files.
C1_ProcessedOnlyOnResult ==
    [][ mode = "monitor" =>
          /\ processed_files' # processed_files =>
                /\ run["main"].pc = "returned"
                /\ processed_files' = processed_files \cup {run["main"].file}
          /\ (run["main"].pc = "raised" /\ run'["main"].pc = "idle") =>
                /\ processed_files' = processed_files
                /\ run["main"].file \notin processed_files'
                /\ run["main"].file \in dir' => run["main"].file \in FindBackupFiles' ]_vars

\* C1 witness: a file whose restore came online and whose run raised (its
\* archival failed) is still in the directory, not in processed_files, and
\* in the listing of a later cycle, while another name was recorded.
C1_Witness ==
    /\ mode = "monitor" /\ mon_pc = "loop"
    /\ processed_files # {}
    /\ \E f \in files : f \in restored /\ f \in dir /\ f \notin processed_files

\* C2: for a file of the watched directory at most one restore is carried to
\* a database that comes online: no restore comes ONLINE for a file a
\* restore of which has come ONLINE already.
C2_NoDuplicateRestore == \A t \in Threads : ~run[t].again

\* C3: a run whose archival of the original artifact failed (after the
\* database came online) still ends in success: process_backup returns its
\* result, the CLI exits 0 with a result event, on_created reports completed.
C3_ArchivalFailureKeepsSuccess ==
    \A t \in Threads :
        (run[t].arch_fail /\ RunEnded(run[t])) =>
            /\ RunSucceeded(run[t])
            /\ (mode = "cli" /\ cli.pc = "exited") => (cli.event = "result" /\ cli.code = 0)

\* C4: the monitor never calls process_backup for a name that is in
\* processed_files, whether the file is still there or was created again.
C4_ProcessedNeverAgain ==
    [][ \A f \in Files :
          ( /\ mode = "monitor"
            /\ run["main"].pc = "idle"
            /\ run'["main"].pc = "pb_start"
            /\ run'["main"].file = f ) => f \notin processed_files ]_vars

\* C4 witness: a listing has skipped a processed name whose file is in the
\* directory, and the monitor is in the loop over that listing.
C4_Witness ==
    /\ mode = "monitor" /\ mon_pc = "loop"
    /\ \E f \in skipped : f \in processed_files /\ f \in dir /\ f \notin files

\* C5: a restore has returned its result (database name and file list) only
\* if a state query of the same run for that database name returned ONLINE.
C5_ResultOnlyAfterOnline ==
    \A t \in Threads :
        (RunSucceeded(run[t]) \/ run[t].pc \in {"t_archive", "s_archive"}) =>
            /\ run[t].db # None
            /\ run[t].online = run[t].db

\* C5 witness: a run has returned a result, in the tool and in the service.
C5_Witness ==
    \E t \in Threads : RunSucceeded(run[t]) /\ run[t].online = run[t].db /\ run[t].db = "MyDB"

\* C6: a run in which a manifest query returned zero entries ends failed:
\* it does not end completed on a restore issued in the same run.
C6_EmptyManifestFails ==
    \A t \in Threads :
        (run[t].empty /\ RunEnded(run[t])) => ~RunSucceeded(run[t])

\* C7: a run that read a non-empty manifest and issued its restore, all of
\* whose engine and file-system calls succeeded and whose wait did not time
\* out, ends completed with a non-empty database name and as many restored
\* files as the manifest has entries.
C7_EngineSuccessCompletes ==
    \A t \in Threads :
        ( /\ RunEnded(run[t])
          /\ run[t].issued /\ ~run[t].empty /\ ~run[t].failed /\ ~run[t].timed_out ) =>
            /\ RunSucceeded(run[t])
            /\ run[t].db \notin {None, ""}
            /\ Len(run[t].flist) = Len(run[t].file_info)

\* C8: after _wait_for_db_online raised its timeout no connection is opened
\* again in the run (and so no manifest query and no restore command).
C8_TimeoutNotRetried ==
    \A t \in Threads : run[t].timed_out => (~run[t].conn /\ RunEnded(run[t]))

\* C9: at most one orchestrator invocation (on_created, process_backup) is
\* in progress at any time.
C9_OneRunAtATime ==
    Cardinality({ t \in Threads : run[t].pc \notin {"idle", "done"} }) <= 1

\* C10: a retry loop with 3 attempts around an operation that always fails
\* invokes it exactly 3 times and raises the error of the last invocation,
\* returning no result.
C10_AlwaysFailing ==
    ( /\ rt.n = max_attempts
      /\ \A i \in 1..rt.n : rt.outcomes[i] \in Errors
      /\ rt.pc # "loop" ) =>
        /\ rt.calls = max_attempts
        /\ rt.pc = "raised"
        /\ rt.error.of = rt.outcomes[max_attempts]
        /\ rt.result = None

\* C10 witness: the third invocation failed with another error than the
\* first two, and the loop has raised.
C10_Witness ==
    /\ rt.n = max_attempts /\ rt.pc = "raised" /\ rt.calls = max_attempts
    /\ rt.outcomes = << "e1", "e1", "e2" >>

\* C11: a retry loop with 3 attempts around an operation that fails on its
\* first two invocations and succeeds on the third returns the result of the
\* third invocation, and exactly 2 retry events have been reported to the
\* Progress Reporter (the callback).
C11_TransientFailure ==
    ( /\ rt.n = max_attempts
      /\ rt.outcomes[1] \in Errors /\ rt.outcomes[2] \in Errors
      /\ rt.outcomes[3] \in Values
      /\ rt.pc # "loop" ) =>
        /\ rt.pc = "returned"
        /\ rt.result = rt.outcomes[3]
        /\ rt.reports = 2

\* C12: within one run each retried stage is invoked at most max_attempts
\* times in total: the extraction (one per attempt of process_rar_file), the
\* manifest read and the restore command.
C12_StageAtMostN ==
    \A t \in Threads :
        /\ run[t].a_rar <= max_attempts
        /\ run[t].n_man <= max_attempts
        /\ run[t].n_res <= max_attempts

\* C13: a run ends failed on the failure of its extraction, of its manifest
\* query or of its restore command only when that stage has been invoked
\* max_attempts times in the run (a first failure is retried, not fatal).
C13_StageRetriedLocally ==
    [][ \A t \in Threads :
          ( /\ ~RunEnded(run[t]) /\ RunEnded(run'[t]) /\ ~RunSucceeded(run'[t])
            /\ run'[t].reason \in {"ExtractionError", "OperationError", "OperationalError"} ) =>
              /\ run[t].pc \in {"t_extract", "s_rar"} => run[t].a_rar >= max_attempts
              /\ run[t].pc \in {"t_manifest", "s_manifest"} => run'[t].n_man >= max_attempts
              /\ run[t].pc \in {"t_restore", "s_restore", "s_fb_restore"} =>
                    run'[t].n_res >= max_attempts ]_vars

\* C14: every on_created that has ended made exactly one terminal status
\* callback (completed or failed).
C14_TerminalStatusOnce ==
    \A t \in Threads :
        (mode = "service" /\ run[t].pc = "done") => TerminalStatuses(run[t]) = 1

\* C15: a CLI execution that has exited wrote exactly one terminal event
\* (result or error), and it is the last line written.
C15_OneTerminalEvent ==
    cli.pc = "exited" => (Len(cli.evs) = 1 /\ cli.last = cli.evs[1])

\* C16: the exit code of the CLI is 0 exactly when a result event was
\* written, 1 when an error event was written for a handled failure, and
\* 130 when the run was interrupted.
C16_ExitCodes ==
    cli.pc = "exited" =>
        /\ cli.code = 0 <=> (\E i \in 1..Len(cli.evs) : cli.evs[i] = "result")
        /\ cli.intr => cli.code = 130
        /\ (~cli.intr /\ cli.event = "error") => cli.code = 1
        /\ cli.code \in {0, 1, 130}

C18_FirstCandidateOnly ==
    \A t \in Threads :
        run[t].cur > 1 =>
            run[t].pc \notin {"s_restore", "s_fb_restore", "s_poll", "s_fb_poll",
                              "s_fb_files", "s_archive"}

\* C19: a run on an archive in which no candidate was found ends failed
\* with the no-backup-file-found reason, without a manifest query or a
\* restore command, and leaves the archive where it was.
C19_NoCandidateFails ==
    \A t \in Threads :
        (run[t].nocand /\ RunEnded(run[t])) =>
            /\ ~RunSucceeded(run[t])
            /\ run[t].reason = "NoBackupInArchive"
            /\ run[t].n_man = 0 /\ run[t].n_res = 0 /\ ~run[t].issued
            /\ run[t].file \in dir

\* C20: a run whose full restore command was refused by the engine has
\* issued the simplified restore command under the generated name.
C20_FallbackAfterFullFailure ==
    \A t \in Threads : (run[t].rfail /\ RunEnded(run[t])) => run[t].fb

\* C21: a wait for the database returns exactly on a sample that is ONLINE;
\* after a sample that is RESTORING, another state or no row it sleeps and
\* polls again, until the timeout, which is raised only when no sample was
\* ONLINE; and for every sequence of samples the wait ends, returning or
\* (when every query was answered) raising the timeout.
C21_OnlinePolling ==
    /\ [](rt.pc = "returned" <=> (rt.polls > 0 /\ rt.samples[rt.polls] = "ONLINE"))
    /\ [](\A i \in 1..rt.polls :
            rt.samples[i] \in States \ {"ONLINE"} =>
                /\ rt.sleeps >= Cardinality({ j \in 1..i : rt.samples[j] \in States \ {"ONLINE"} })
                /\ i < rt.polls \/ rt.pc = "loop"
                     \/ (rt.error = "TimeoutError" /\ rt.polls = MaxPolls))
    /\ [](rt.error = "TimeoutError" =>
            rt.polls = MaxPolls /\ \A i \in 1..MaxPolls : rt.samples[i] # "ONLINE")
    /\ []((rt.pc = "raised" /\ \A i \in 1..rt.polls : rt.samples[i] \in States) =>
            rt.error = "TimeoutError")
    /\ <>(rt.pc # "loop")

\* C21 witness: the service's wait returned on its third sample, after no
\* row and an unexpected state.
C21_Witness ==
    /\ rt.kind = "s_wait" /\ rt.pc = "returned" /\ rt.polls = 3 /\ rt.sleeps = 2
    /\ rt.samples[1] = "absent" /\ rt.samples[2] = "RECOVERING" /\ rt.samples[3] = "ONLINE"

\* C22: the stability detector returns True at the first sample that equals
\* the sample before it, having taken no sample after it, and False when no
\* two consecutive samples taken before the timeout are equal.
C22_StabilityDetector ==
    (rt.kind = "stability" /\ rt.pc = "returned" /\ rt.gone = 0) =>
        LET eq == { i \in 2..MaxSamples : rt.sizes[i] = rt.sizes[i - 1] } IN
        IF eq # {}
        THEN /\ rt.result = "True"
             /\ rt.taken \in eq /\ \A i \in eq : rt.taken <= i
        ELSE /\ rt.result = "False"
             /\ rt.taken = MaxSamples

\* C22 witness: the sizes 100, 150, 150 made the detector return True after
\* the third sample.
C22_Witness ==
    /\ rt.kind = "stability" /\ rt.pc = "returned" /\ rt.gone = 0
    /\ rt.sizes[1] = 100 /\ rt.sizes[2] = 150 /\ rt.sizes[3] = 150
    /\ rt.result = "True" /\ rt.taken = 3

\* C23: a file whose stability wait returned False is dispatched to the
\* orchestrator again later, with no new creation event for it.
C23_DeferredIsRetried ==
    \A f \in Files :
        ( /\ mode = "service" /\ run["main"].file = f
          /\ run["main"].pc = "done" /\ run["main"].status = "deferred" )
          ~> (run["main"].file = f /\ run["main"].pc = "s_stab")

\* C26: after a run of the polling monitor raised, whatever the failure, the
\* monitor dispatches the files that remain in the listing of the cycle and
\* starts the next cycle; in the service every on_created that was entered
\* ends with its outcome reported and the startup scan goes through the
\* whole listing.
C26_MonitorSurvives ==
    /\ (mode = "monitor" /\ run["main"].pc = "raised") ~> (mon_pc = "list")
    /\ \A f \in Files :
         (mode = "monitor" /\ run["main"].pc = "raised" /\ f \in files)
           ~> (run["main"].pc = "pb_start" /\ run["main"].file = f)
    /\ (mode = "service" /\ run["main"].pc \notin {"idle", "done"})
         ~> (run["main"].pc = "done")
    /\ (mode = "service" /\ scan = "running") ~> (scan = "done")

\* C26 witness: the wait for the database of the first file of a cycle
\* timed out, the run raised, and another file of the listing is still to
\* be processed.
C26_Witness ==
    /\ mode = "monitor" /\ mon_pc = "loop"
    /\ run["main"].pc = "raised" /\ run["main"].reason = "TimeoutError"
    /\ files # {}

\* C27: every listing of the polling monitor holds the files that are in the
\* directory and not in processed_files, and a file that the archive tool
\* and the engine do not refuse for ever is in processed_files in the end.
C27_RetriedUntilProcessed ==
    /\ [][ (mon_pc = "list" /\ mon_pc' = "loop") =>
             \A f \in Files : (f \in dir /\ f \notin processed_files) => f \in files' ]_vars
    /\ \A f \in Files : (f \in dir) ~> (f \in processed_files)

\* C24: no copy to the shared directory, extraction, connection or restore
\* command is made for a file by a monitor before the stability detector
\* has returned True for it.
C24_StabilityGate ==
    \A t \in Threads :
        ( /\ mode \in {"monitor", "service"}
          /\ \/ run[t].tmp \/ run[t].conn \/ run[t].issued \/ run[t].tpath
             \/ run[t].pc = "t_connect" ) => run[t].stable

\* C25: a monitor dispatches to the orchestrator no entry whose name holds a
\* marker (.lock, .tmp, .part) and no entry that does not end with one of
\* the patterns.
C25_DispatchFilter ==
    \A t \in Threads :
        run[t].pc # "idle" =>
            /\ ~HasMarker(run[t].file)
            /\ run[t].file.ext \in file_patterns

\* C28: a file leaves the watched directory only in the archival step of a
\* run on it whose restore was confirmed ONLINE, and that run ends with a
\* result; a run that ended failed has left its file in the directory.
C28_FailureKeepsFile ==
    /\ [][ \A f \in Files :
             (f \in dir /\ f \notin dir') =>
                 \E t \in Threads :
                     /\ run[t].file = f
                     /\ run[t].pc \in {"t_archive", "s_archive"}
                     /\ run[t].online # None /\ run[t].online = run[t].db
                     /\ RunSucceeded(run'[t]) ]_vars
    /\ [](\A t \in Threads :
            (RunEnded(run[t]) /\ ~RunSucceeded(run[t])) => run[t].file \in dir)

\* C28 witness: a run of the service whose full and simplified restore
\* commands were both issued has ended failed, and the file is still there.
C28_Witness ==
    \E t \in Threads :
        /\ mode = "service" /\ run[t].pc = "done" /\ run[t].status = "failed"
        /\ run[t].rfail /\ run[t].fb
        /\ run[t].file = DatFile /\ DatFile \in dir

C33_CooperativeShutdown ==
    /\ [](\A t \in Threads : run[t].pc # "interrupted")
    /\ [][ \A t \in Threads :
             ( \/ (mon_pc' = "stopped" /\ mon_pc # "stopped")
               \/ (scan' \in {"stopping", "stopped"} /\ scan # scan') ) =>
                 ~InFlight(run[t]) ]_vars

\* C34: when the event-driven monitor is through with a sequence of
\* arrivals, and the engine has accepted every file, the files restored and
\* the files left in the watched directory (the others are archived) are
\* those the polling monitor ended with on the same sequence.
C34_MonitorsEquivalent ==
    ( /\ rt.kind = "equiv" /\ mode = "service"
      /\ rt.next > Len(rt.script) /\ Quiescent ) =>
        /\ restored = rt.tool.restored
        /\ dir = rt.tool.dir

\* The scenario: a.dat, no target name, archival on, a manifest of one data
\* entry MyDB, and the state samples RESTORING, RESTORING, ONLINE.
Scenario ==
    /\ rt.kind = "engine"
    /\ rt.manifest = << Entry("MyDB", "D") >>
    /\ rt.samples[1] = "RESTORING" /\ rt.samples[2] = "RESTORING" /\ rt.samples[3] = "ONLINE"
    /\ target_db_name = None /\ archive_processed
    /\ run["main"].file = DatFile

\* C35: in the scenario the run ends returned, with one manifest query and
\* one restore command, database_name MyDB, files_restored <<MyDB>> and the
\* archived path archived/a_<timestamp>.dat, the file gone from the watched
\* directory; its wait returns on the third state query, for MyDB; and the
\* file is moved only after the wait has returned.
C35_EndToEnd ==
    /\ []( (Scenario /\ RunEnded(run["main"])) =>
             LET r == run["main"] IN
             /\ r.pc = "returned"
             /\ r.n_man = 1 /\ r.n_res = 1
             /\ r.db = "MyDB" /\ r.online = "MyDB"
             /\ r.flist = << "MyDB" >>
             /\ r.archived_path = [dir |-> "archived", base |-> "a", timestamp |-> "T",
                                   ext |-> ".dat"]
             /\ DatFile \notin dir )
    /\ [][ Scenario =>
             /\ (run["main"].pc = "t_poll" /\ run'["main"].pc # "t_poll") =>
                   /\ run["main"].polls = 2
                   /\ run'["main"].pc = "t_archive"
                   /\ run["main"].db = "MyDB"
             /\ (DatFile \in dir /\ DatFile \notin dir') =>
                   (run["main"].pc = "t_archive" /\ run'["main"].pc = "returned") ]_vars

\* C35 witness: the CLI has written the result event of the scenario.
C35_Witness ==
    /\ Scenario /\ mode = "cli" /\ cli.event = "result"
    /\ run["main"].pc = "returned" /\ run["main"].db = "MyDB"
    /\ DatFile \notin dir

\* C36: the step that reads the manifest leads a run to a RESTORE DATABASE
\* command, full or simplified, only with a manifest of at least one entry;
\* a manifest query that failed leads to none.
C36_RestoreOnlyAfterManifest ==
    [][ \A t \in Threads :
          ( /\ run[t].pc \in {"t_manifest", "s_manifest"}
            /\ run'[t].pc \in {"t_restore", "s_restore", "s_fb_restore"} ) =>
          Len(run'[t].file_info) >= 1 ]_vars

\* C37: for every configured number of attempts, the connection loop
\* against an engine that refuses every attempt has made exactly that many
\* attempts and reported one progress event for each when it is left, and
\* it is left by a ConnectionError.
C37_ConnectionBounded ==
    ( /\ rt.kind = "connect"
      /\ \A i \in 1..rt.n : rt.outcomes[i] \in Errors
      /\ rt.pc # "loop" ) =>
        /\ rt.calls = rt.n
        /\ rt.reports = rt.n
        /\ rt.pc = "raised"
        /\ rt.error.type = "ConnectionError"

\* C38: the copy in the shared backup directory lives exactly as long as
\* the run that made it: while a run is between its connection and the end
\* of its wait the copy of its backup is in the shared directory, and when
\* a run has ended and none is in flight the shared directory holds no copy.
C38_CopyBelongsToRun ==
    /\ \A t \in Threads :
         run[t].pc \in {"t_connect", "t_manifest", "t_restore", "t_poll",
                        "s_connect", "s_manifest", "s_restore", "s_poll",
                        "s_fb_restore", "s_fb_poll"} =>
            BackupName(run[t]) \in shared
    /\ ( /\ \E t \in Threads : RunEnded(run[t])
         /\ \A t \in Threads : ~InFlight(run[t]) ) => shared = {}

\* C39: a reporter that raises changes nothing in a run: with every call
\* into the environment succeeding, a run in which a call of the reporter
\* has raised has no failed stage and is not ended by the reporter's error.
C39_ReporterFailureHarmless ==
    \A t \in Threads :
        run[t].cb_fail => (~run[t].failed /\ run[t].reason # "ReporterError")
====
